---- MODULE Spec2Model ----
(***************************************************************************)
(* State-machine model of the LiDAR spoofing simulator components.         *)
(*                                                                         *)
(* src/src/lidar_spoof_sim.tsx holds two React components:                 *)
(*   - the VSOC variant   (lines 1-774),    variables without prefix;      *)
(*   - the v2.0 variant   (lines 775-1414), variables prefixed v2_.        *)
(* src/unnamed/part_002 holds the countermeasures variant, variables       *)
(* prefixed cm_.  A run mounts one of them; `variant` says which.          *)
(*                                                                         *)
(* React semantics used by the model: a state setter called with an        *)
(* updater function queues the updater, and queued updaters are applied    *)
(* in call order to the latest state; an effect runs after the commit of   *)
(* a render in which one of its dependencies changed, cleanups before      *)
(* bodies, effects in declaration order.  In the VSOC variant a handler    *)
(* and the effects of its commit form one step (React flushes the effects  *)
(* of a discrete event synchronously).  In the v2.0 variant the effects    *)
(* of an attack switch are a step of their own, so that a frame callback   *)
(* scheduled before the switch may still run in between.                   *)
(*                                                                         *)
(* Numbers: positions are integers (pixels); Math.random() is an input     *)
(* drawn from small sets; trigonometric values are fixed-point with four   *)
(* decimals; the smoothed metrics are fixed-point with MaxMetricUpdates    *)
(* decimals, which makes every update exact.                               *)
(***************************************************************************)
EXTENDS Integers, Sequences, FiniteSets, TLC

VARIABLES
    variant,        \* which component is mounted: "vsoc", "v2" or "cm"
    \* ---- VSOC variant (lines 26-533) ----
    isRunning, vsocActive, attackType, simSpeed, lidarRange,
    collisionRisk, integrityScore, logs, objects,
    requestRef,     \* TRUE while an animation-frame callback is pending
    timers,         \* number of pending 800 ms setTimeout callbacks (line 72)
    noiseSeq,       \* number of noise ids generated so far (ids are fresh)
    \* ---- history of the VSOC run, read only by the properties ----
    lastTick,       \* the most recent running tick: closure values and list before it
    lastSwitch,     \* the most recent change of attackType: previous mode, ticks since
    lastCall,       \* the most recent calculateRiskMetrics call: arguments and targets
    \* ---- history of the run of any variant, read only by the properties ----
    lastOp,         \* the handler that ran last
    sinceStop,      \* how the run was stopped last, and what has run since
    logCalls,       \* the addLog calls since the log was last emptied, newest first
    \* ---- calculateLidar applied to given arguments ----
    scan,           \* the arguments, and once it has run the hits and minDist
    \* ---- bounds of the exploration ----
    clicks, ticks, metricUpdates,
    \* ---- v2.0 variant (lines 797-1201) ----
    v2_isRunning, v2_attackType, v2_simSpeed, v2_lidarRange, v2_objects, v2_logs,
    v2_detectionRate, v2_collisionRisk, v2_nearestObjectDist,
    v2_frame,       \* the pending animation frame: the closure it will run, or NoFrame
    v2_effects,     \* TRUE between the commit of a new attackType and its effects
    v2_lastSwitch,  \* history: the most recent change of v2_attackType
    v2_lastCall,    \* history: the most recent calculateRiskMetrics call
    \* ---- countermeasures variant (src/unnamed/part_002) ----
    cm_isRunning, cm_attackType, cm_detectionRate, cm_collisionRisk, cm_time,
    cm_countermeasures, cm_carPos, cm_realObjects, cm_spoofedObjects,
    cm_carSpeed, cm_lidarRange, cm_mitigationScore,
    cm_animationRef, \* animationRef.current: the id of the frame requested last, 0 for null
    cm_pending,      \* the ids of the frame callbacks requested and neither run nor cancelled
    cm_requests,     \* the number of requestAnimationFrame calls so far (ids are 1, 2, ...)
    cm_lastFrame     \* history: the frame callback that ran last

vsocVars == <<isRunning, vsocActive, attackType, simSpeed, lidarRange,
              collisionRisk, integrityScore, logs, objects, requestRef, timers,
              noiseSeq, lastTick, lastSwitch, lastCall>>
v2Vars == <<v2_isRunning, v2_attackType, v2_simSpeed, v2_lidarRange, v2_objects,
            v2_logs, v2_detectionRate, v2_collisionRisk, v2_nearestObjectDist,
            v2_frame, v2_effects, v2_lastSwitch, v2_lastCall>>
\* the metrics of the v2.0 variant and the history of their updates
v2MetricVars == <<v2_detectionRate, v2_collisionRisk, v2_nearestObjectDist,
                  v2_lastCall>>
boundVars == <<clicks, ticks, metricUpdates>>
histVars == <<lastOp, sinceStop, logCalls>>
cmVars == <<cm_isRunning, cm_attackType, cm_detectionRate, cm_collisionRisk, cm_time,
            cm_countermeasures, cm_carPos, cm_realObjects, cm_spoofedObjects,
            cm_carSpeed, cm_lidarRange, cm_mitigationScore,
            cm_animationRef, cm_pending, cm_requests, cm_lastFrame>>
vars == <<variant, vsocVars, v2Vars, cmVars, boundVars, histVars, scan>>

----------------------------------------------------------------------------
(* Bounds of the exploration. *)

\* user actions (button clicks, slider moves) per run
MaxClicks == 2
\* executed animation frames per run, counted from the start scenario
MaxTicks == 3
\* calculateRiskMetrics calls per run
MaxMetricUpdates == 2

----------------------------------------------------------------------------
(* Program constants. *)

AttackTypes == {"none", "phantom", "hiding", "relay", "saturation"}
RealTypes == {"pedestrian", "vehicle", "obstacle"}

canvasWidth == 800
noiseCount == 15
Undefined == -100000

\* ids are numbers (1, 2, 3), the string 'phantom', or 'n-<random>': one shape for all
NumId(n) == <<"num", n>>
PhantomId == <<"phantom", 0>>
NoiseId(n) == <<"n", n>>

Obj(id, type, x, y, w, h) ==
    [id |-> id, type |-> type, x |-> x, y |-> y, width |-> w, height |-> h,
     hidden |-> FALSE, flagged |-> FALSE, correctedX |-> Undefined]

InitialObjects ==
    << Obj(NumId(1), "vehicle", 600, 280, 80, 50),
       Obj(NumId(2), "pedestrian", 900, 300, 30, 60) >>

----------------------------------------------------------------------------
(* Sequence helpers. *)

\* Array.prototype.filter(o => o.type is none of `types`)
RECURSIVE WithoutTypes(_, _)
WithoutTypes(s, types) ==
    IF s = << >> THEN << >>
    ELSE IF Head(s).type \notin types
         THEN <<Head(s)>> \o WithoutTypes(Tail(s), types)
         ELSE WithoutTypes(Tail(s), types)

CountType(objs, t) == Cardinality({i \in DOMAIN objs : objs[i].type = t})

----------------------------------------------------------------------------
(* VSOC variant: the setObjects updater of animate (lines 94-162). *)

\* Math.random() * 600 for the i-th object of the list, from the draw rnd
RespawnJitter(rnd, i) == (rnd + 211 * (i - 1)) % 600
\* Math.random() * width and 200 + Math.random() * 250 for the i-th noise object
NoiseX(rnd, i) == (rnd * 397 + i * 53) % canvasWidth
NoiseY(rnd, i) == 200 + ((rnd * 101 + i * 17) % 250)

MoveObjects(prev, speed) ==
    [i \in DOMAIN prev |->
        [prev[i] EXCEPT !.x = @ - speed, !.flagged = FALSE, !.correctedX = Undefined]]

\* mutant: a recycled object is placed without the margin of 100
RespawnObjectsNoMargin(objs, rnd) ==
    [i \in DOMAIN objs |->
        IF objs[i].x + objs[i].width < -200
        THEN [objs[i] EXCEPT !.x = canvasWidth + RespawnJitter(rnd, i),
                             !.hidden = FALSE]
        ELSE objs[i]]

RespawnObjects(objs, rnd) ==
    [i \in DOMAIN objs |->
        IF objs[i].x + objs[i].width < -200
        THEN [objs[i] EXCEPT !.x = canvasWidth + 100 + RespawnJitter(rnd, i),
                             !.hidden = FALSE]
        ELSE objs[i]]

\* mutant: every noise object gets the same id
NewNoiseOneId(vsoc, rnd, idBase) ==
    [i \in 1..noiseCount |->
        [Obj(NoiseId(idBase), "noise", NoiseX(rnd, i), NoiseY(rnd, i), 3, 3)
            EXCEPT !.flagged = vsoc]]

NewNoise(vsoc, rnd, idBase) ==
    [i \in 1..noiseCount |->
        [Obj(NoiseId(idBase + i), "noise", NoiseX(rnd, i), NoiseY(rnd, i), 3, 3)
            EXCEPT !.flagged = vsoc]]

\* mutant: the old noise is not removed before the new noise is added
SaturationStepKeepsOld(objs, attack, vsoc, rnd, idBase) ==
    IF attack = "saturation"
    THEN objs \o NewNoise(vsoc, rnd, idBase)
    ELSE objs

\* mutant: the filter keeps the noise objects and drops the others
SaturationStepKeepsNoise(objs, attack, vsoc, rnd, idBase) ==
    IF attack = "saturation"
    THEN WithoutTypes(objs, RealTypes) \o NewNoise(vsoc, rnd, idBase)
    ELSE objs

SaturationStep(objs, attack, vsoc, rnd, idBase) ==
    IF attack = "saturation"
    THEN WithoutTypes(objs, {"noise"}) \o NewNoise(vsoc, rnd, idBase)
    ELSE objs

HasPhantom(objs) == \E i \in DOMAIN objs : objs[i].type = "phantom"

\* mutant: the phantom is injected without the hasPhantom test
PhantomStepEveryTick(objs, attack, vsoc) ==
    IF attack = "phantom"
    THEN Append(objs, [Obj(PhantomId, "phantom", 350, 280, 80, 50)
                          EXCEPT !.flagged = vsoc])
    ELSE objs

PhantomStep(objs, attack, vsoc) ==
    IF attack = "phantom" /\ ~HasPhantom(objs)
    THEN Append(objs, [Obj(PhantomId, "phantom", 350, 280, 80, 50)
                          EXCEPT !.flagged = vsoc])
    ELSE objs

\* mutant: the flag is latched, set inside the interval and never cleared
HidingStepLatched(objs, attack) ==
    IF attack = "hiding"
    THEN [i \in DOMAIN objs |->
            [objs[i] EXCEPT !.hidden =
                @ \/ (objs[i].type # "phantom" /\ objs[i].type # "noise"
                      /\ objs[i].x > 200 /\ objs[i].x < 500)]]
    ELSE objs

HidingStep(objs, attack) ==
    IF attack = "hiding"
    THEN [i \in DOMAIN objs |->
            [objs[i] EXCEPT !.hidden =
                objs[i].type # "phantom" /\ objs[i].type # "noise"
                /\ objs[i].x > 200 /\ objs[i].x < 500]]
    ELSE objs

RelayStep(objs, attack) ==
    IF attack = "relay"
    THEN [i \in DOMAIN objs |->
            IF objs[i].type # "phantom" /\ objs[i].type # "noise"
            THEN [objs[i] EXCEPT !.correctedX = objs[i].x]
            ELSE objs[i]]
    ELSE objs

UpdateObjects(prev, attack, vsoc, speed, rnd, idBase) ==
    RelayStep(
      HidingStep(
        PhantomStep(
          SaturationStep(RespawnObjects(MoveObjects(prev, speed), rnd),
                         attack, vsoc, rnd, idBase),
          attack, vsoc),
        attack),
      attack)

----------------------------------------------------------------------------
(* VSOC variant: calculateLidar (lines 416-485). *)

sensorX == 120
sensorY == 340
numRays == 40
Rays == 0..(numRays - 1)

\* cos and sin of angle = -fov/2 + fov * i / numRays, fov = PI/3, times 10^4
CosTable ==
    << 8660, 8788, 8910, 9026, 9135, 9239, 9336, 9426, 9511, 9588,
       9659, 9724, 9781, 9833, 9877, 9914, 9945, 9969, 9986, 9997,
       10000, 9997, 9986, 9969, 9945, 9914, 9877, 9833, 9781, 9724,
       9659, 9588, 9511, 9426, 9336, 9239, 9135, 9026, 8910, 8788 >>
SinTable ==
    << -5000, -4772, -4540, -4305, -4067, -3827, -3584, -3338, -3090, -2840,
       -2588, -2334, -2079, -1822, -1564, -1305, -1045, -785, -523, -262,
       0, 262, 523, 785, 1045, 1305, 1564, 1822, 2079, 2334,
       2588, 2840, 3090, 3338, 3584, 3827, 4067, 4305, 4540, 4772 >>
Cos4(i) == CosTable[i + 1]
Sin4(i) == SinTable[i + 1]

\* ray end point, times 10^4
EndX4(i, range) == sensorX * 10000 + Cos4(i) * range
EndY4(i, range) == sensorY * 10000 + Sin4(i) * range

\* the x the hit test uses (lines 441-442)
CheckX(obj, attack) ==
    IF attack = "relay" /\ obj.type \notin {"phantom", "noise"}
    THEN obj.x - 150 ELSE obj.x

\* mutant: the `if (obj.hidden) continue` of line 438 is missing
RayHitsThroughHidden(i, obj, attack, range) ==
    /\ EndY4(i, range) > obj.y * 10000
    /\ EndY4(i, range) < (obj.y + obj.height) * 10000
    /\ EndX4(i, range) > CheckX(obj, attack) * 10000
    /\ EndX4(i, range) < (CheckX(obj, attack) + obj.width + 20) * 10000

\* the hit test of one ray against one object (lines 438-445)
RayHits(i, obj, attack, range) ==
    /\ ~obj.hidden
    /\ EndY4(i, range) > obj.y * 10000
    /\ EndY4(i, range) < (obj.y + obj.height) * 10000
    /\ EndX4(i, range) > CheckX(obj, attack) * 10000
    /\ EndX4(i, range) < (CheckX(obj, attack) + obj.width + 20) * 10000

\* index of the object ray i hits: the first in list order, 0 when none
HitIndex(i, objs, attack, range) ==
    LET hits == {k \in DOMAIN objs : RayHits(i, objs[k], attack, range)}
    IN  IF hits = {} THEN 0
        ELSE CHOOSE k \in hits : \A m \in hits : k <= m

Max(a, b) == IF a >= b THEN a ELSE b

\* d of lines 447-450 in hundredths: hitY is on the ray, so d = (hitX - sensorX) / cos
HitDist(i, obj, attack) ==
    ((Max(sensorX, CheckX(obj, attack)) - sensorX) * 1000000) \div Cos4(i)

\* no hit: calculateLidar returns null (line 484)
Null == -1

\* d of ray i, or Null when the ray hits nothing
RayDist(i, objs, attack, range) ==
    LET k == HitIndex(i, objs, attack, range)
    IN  IF k = 0 THEN Null ELSE HitDist(i, objs[k], attack)

\* minDist of calculateLidar, in hundredths, or Null
CalculateLidar(objs, attack, range) ==
    LET dists == {RayDist(i, objs, attack, range) : i \in Rays} \ {Null}
    IN  IF dists = {} THEN Null
        ELSE CHOOSE d \in dists : \A e \in dists : d <= e

----------------------------------------------------------------------------
(* VSOC variant: calculateRiskMetrics (lines 487-513). *)

\* `dist && dist < 120` (line 493): null and 0 are falsy
DistIsNear(dist) == dist # Null /\ dist # 0 /\ dist < 120 * 100

AttackRisk(attack) ==
    CASE attack = "phantom" -> 80
      [] attack = "saturation" -> 60
      [] attack = "relay" -> 75
      [] attack = "hiding" -> 90
      [] OTHER -> 5

\* mutant: the mitigated relay risk repeats the unmitigated one
MitigatedRiskRelayCopied(attack, risk) ==
    CASE attack = "phantom" -> 10
      [] attack = "saturation" -> 20
      [] attack = "relay" -> 75
      [] attack = "hiding" -> 40
      [] OTHER -> risk

MitigatedRisk(attack, risk) ==
    CASE attack = "phantom" -> 10
      [] attack = "saturation" -> 20
      [] attack = "relay" -> 25
      [] attack = "hiding" -> 40
      [] OTHER -> risk

\* the targets `risk` and `integrity` before the smoothing (lines 488-509)
RiskTargets(attack, vsoc, dist) ==
    LET risk0 == IF attack = "none"
                 THEN (IF DistIsNear(dist) THEN 30 ELSE 5)
                 ELSE AttackRisk(attack)
        integrity0 == IF attack = "none" THEN 100 ELSE 40
    IN  IF vsoc
        THEN [risk |-> MitigatedRisk(attack, risk0), integrity |-> 98]
        ELSE [risk |-> risk0, integrity |-> integrity0]

RECURSIVE Pow10(_)
Pow10(n) == IF n = 0 THEN 1 ELSE 10 * Pow10(n - 1)
\* collisionRisk and integrityScore are held in units of 1 / MetricScale
MetricScale == Pow10(MaxMetricUpdates)

\* mutant: the smoothing factor is 1.1
SmoothOvershoots(prev, target) ==
    prev + (((target * MetricScale - prev) * 11) \div 10)

\* mutant: the metric is assigned its target
SmoothAssigns(prev, target) == target * MetricScale

\* prev + (target - prev) * 0.1 (lines 511-512 and 1178-1179)
Smooth(prev, target) == prev + ((target * MetricScale - prev) \div 10)

----------------------------------------------------------------------------
(* VSOC variant: the event log (lines 55-66) and the logic hook (lines 69-78). *)

LogEntry(message, type) == [message |-> message, type |-> type]

\* mutant: the log is not truncated
AddLogUnbounded(prev, message, type) ==
    IF Len(prev) > 0 /\ prev[1].message = message THEN prev
    ELSE <<LogEntry(message, type)>> \o prev

AddLog(prev, message, type) ==
    IF Len(prev) > 0 /\ prev[1].message = message THEN prev
    ELSE SubSeq(<<LogEntry(message, type)>> \o prev, 1,
                IF Len(prev) + 1 < 6 THEN Len(prev) + 1 ELSE 6)

MsgAnalysis(attack) == <<"VSOC: Analysis started for signature", attack>>
MsgDeployed == <<"VSOC: Counter-measures deployed.", "">>
MsgVulnerable(attack) == <<"WARNING: System vulnerable to attack!", attack>>
MsgReset == <<"Simulation reset. Systems nominal.", "">>

\* the log after the effect on [attackType, vsocActive] has run
LogicHookLogs(prev, attack, vsoc) ==
    IF vsoc /\ attack # "none" THEN AddLog(prev, MsgAnalysis(attack), "info")
    ELSE IF attack # "none" THEN AddLog(prev, MsgVulnerable(attack), "alert")
    ELSE prev

\* the addLog calls of that effect, newest first
LogicHookCalls(attack, vsoc) ==
    IF vsoc /\ attack # "none" THEN <<LogEntry(MsgAnalysis(attack), "info")>>
    ELSE IF attack # "none" THEN <<LogEntry(MsgVulnerable(attack), "alert")>>
    ELSE << >>

\* the attack modes the user switched through before a start state, oldest first
Switches(sc) == IF "switches" \in DOMAIN sc THEN sc.switches ELSE << >>

\* the log after the effect has run for each of the attack modes of `seq`
RECURSIVE LogsAfter(_, _)
LogsAfter(prev, seq) ==
    IF seq = << >> THEN prev
    ELSE LogsAfter(LogicHookLogs(prev, Head(seq), FALSE), Tail(seq))

\* the number of setTimeout callbacks the effect starts
LogicHookTimers(attack, vsoc) == IF vsoc /\ attack # "none" THEN 1 ELSE 0

----------------------------------------------------------------------------
(* Inputs. *)

\* Math.random() draws of one tick
RandomDraws == {0, 599}
\* requestAnimationFrame timestamps (floored): one that line 210 samples, one not
FrameTimes == {16, 50}
\* the speed slider (line 636: 0..10) and the range slider (line 648: 100..600)
SpeedChoices == {0, 10}
RangeChoices == {100, 600}

----------------------------------------------------------------------------
(* Start scenarios of the VSOC variant: the mounted component, or the state  *)
(* it is in after the user has picked an attack, pressed RUN and `frames`    *)
(* animation frames with unsampled timestamps have run.                      *)

Scenarios ==
    { [attack |-> "none", frames |-> 0],
      [attack |-> "none", frames |-> 119],
      [attack |-> "none", frames |-> 220],
      [attack |-> "phantom", frames |-> 158],
      [attack |-> "hiding", frames |-> 99] }

RECURSIVE RunFrames(_, _, _)
RunFrames(objs, attack, n) ==
    IF n = 0 THEN objs
    ELSE IF n = 1 THEN UpdateObjects(objs, attack, FALSE, 4, 0, 0)
    ELSE LET half == RunFrames(objs, attack, n \div 2)
         IN  \* the comparison makes TLC evaluate the list before it goes on
             IF half = << >> THEN half
             ELSE RunFrames(half, attack, n - (n \div 2))

NoTick ==
    [done |-> FALSE, attackType |-> "none", vsocActive |-> FALSE, simSpeed |-> 0,
     before |-> << >>]
NoCall ==
    [done |-> FALSE, attackType |-> "none", vsocActive |-> FALSE, dist |-> Null,
     risk |-> 0, integrity |-> 0, prevRisk |-> 0, prevIntegrity |-> 0]

VsocStarted(sc) ==
    /\ isRunning = (sc.frames > 0)
    /\ vsocActive = FALSE
    /\ attackType = sc.attack
    /\ simSpeed = 4
    /\ lidarRange = 400
    /\ collisionRisk = 0
    /\ integrityScore = 100 * MetricScale
    /\ logs = LogsAfter(<< >>, Switches(sc) \o <<sc.attack>>)
    /\ objects = RunFrames(InitialObjects, sc.attack, sc.frames)
    /\ requestRef = TRUE
    /\ timers = 0
    /\ noiseSeq = 0
    /\ lastTick = IF sc.frames = 0 THEN NoTick
                  ELSE [done |-> TRUE, attackType |-> sc.attack, vsocActive |-> FALSE,
                        simSpeed |-> 4,
                        before |-> RunFrames(InitialObjects, sc.attack, sc.frames - 1)]
    /\ lastSwitch = [from |-> "none", ticked |-> sc.frames > 0]
    /\ lastCall = NoCall

----------------------------------------------------------------------------
(* History of stops: setIsRunning(false) by the RUN / PAUSE button or by reset, *)
(* and the frame callbacks executed since.                                      *)

NotStopped == [by |-> "none", frames |-> FALSE, metrics |-> FALSE]
StoppedBy(by) == [by |-> by, frames |-> FALSE, metrics |-> FALSE]
\* a frame callback has run; `sampled` when it has updated the metrics
FrameSinceStop(s, sampled) ==
    IF s.by = "none" THEN s
    ELSE [s EXCEPT !.frames = TRUE, !.metrics = @ \/ sampled]

----------------------------------------------------------------------------
(* VSOC variant: the handlers. *)

\* onClick of the VSOC button (line 551), then the effects of lines 69-78 and 516-521
ToggleVsoc ==
    /\ variant = "vsoc"
    /\ clicks < MaxClicks
    /\ clicks' = clicks + 1
    /\ vsocActive' = ~vsocActive
    /\ logs' = LogicHookLogs(logs, attackType, ~vsocActive)
    /\ timers' = timers + LogicHookTimers(attackType, ~vsocActive)
    /\ requestRef' = TRUE
    /\ lastOp' = "toggleVsoc"
    /\ logCalls' = LogicHookCalls(attackType, ~vsocActive) \o logCalls
    /\ UNCHANGED sinceStop
    /\ UNCHANGED <<variant, scan, cmVars, isRunning, attackType, simSpeed, lidarRange, collisionRisk,
                   integrityScore, objects, noiseSeq, lastTick, lastSwitch, lastCall,
                   ticks, metricUpdates, v2Vars>>

\* onClick of the RUN / PAUSE button (line 565), then the effect of lines 516-521
ToggleRunning ==
    /\ variant = "vsoc"
    /\ clicks < MaxClicks
    /\ clicks' = clicks + 1
    /\ isRunning' = ~isRunning
    /\ requestRef' = TRUE
    /\ lastOp' = "toggleRunning"
    /\ UNCHANGED logCalls
    /\ sinceStop' = IF isRunning THEN StoppedBy("pause") ELSE NotStopped
    /\ UNCHANGED <<variant, scan, cmVars, vsocActive, attackType, simSpeed, lidarRange, collisionRisk,
                   integrityScore, logs, objects, timers, noiseSeq, lastTick,
                   lastSwitch, lastCall, ticks, metricUpdates, v2Vars>>

\* onClick of an attack button (line 607), then the effects of lines 69-78 and 516-521
SetAttackType(a) ==
    /\ variant = "vsoc"
    /\ clicks < MaxClicks
    /\ a # attackType
    /\ clicks' = clicks + 1
    /\ attackType' = a
    /\ logs' = LogicHookLogs(logs, a, vsocActive)
    /\ timers' = timers + LogicHookTimers(a, vsocActive)
    /\ requestRef' = TRUE
    /\ lastSwitch' = [from |-> attackType, ticked |-> FALSE]
    /\ lastOp' = "setAttackType"
    /\ logCalls' = LogicHookCalls(a, vsocActive) \o logCalls
    /\ UNCHANGED sinceStop
    /\ UNCHANGED <<variant, scan, cmVars, isRunning, vsocActive, simSpeed, lidarRange, collisionRisk,
                   integrityScore, objects, noiseSeq, lastTick, lastCall,
                   ticks, metricUpdates, v2Vars>>

\* onChange of the speed slider (line 638), then the effect of lines 516-521
SetSimSpeed(s) ==
    /\ variant = "vsoc"
    /\ clicks < MaxClicks
    /\ s # simSpeed
    /\ clicks' = clicks + 1
    /\ simSpeed' = s
    /\ requestRef' = TRUE
    /\ lastOp' = "setSimSpeed"
    /\ UNCHANGED logCalls
    /\ UNCHANGED sinceStop
    /\ UNCHANGED <<variant, scan, cmVars, isRunning, vsocActive, attackType, lidarRange, collisionRisk,
                   integrityScore, logs, objects, timers, noiseSeq, lastTick,
                   lastSwitch, lastCall, ticks, metricUpdates, v2Vars>>

\* onChange of the range slider (line 650), then the effect of lines 516-521
SetLidarRange(r) ==
    /\ variant = "vsoc"
    /\ clicks < MaxClicks
    /\ r # lidarRange
    /\ clicks' = clicks + 1
    /\ lidarRange' = r
    /\ requestRef' = TRUE
    /\ lastOp' = "setLidarRange"
    /\ UNCHANGED logCalls
    /\ UNCHANGED sinceStop
    /\ UNCHANGED <<variant, scan, cmVars, isRunning, vsocActive, attackType, simSpeed, collisionRisk,
                   integrityScore, logs, objects, timers, noiseSeq, lastTick,
                   lastSwitch, lastCall, ticks, metricUpdates, v2Vars>>

\* reset (lines 524-533), then the effects of lines 69-78 (which log nothing for
\* 'none') and 516-521
Reset ==
    /\ variant = "vsoc"
    /\ clicks < MaxClicks
    /\ clicks' = clicks + 1
    /\ isRunning' = FALSE
    /\ objects' = InitialObjects
    /\ attackType' = "none"
    /\ logs' = AddLog(<< >>, MsgReset, "info")
    /\ requestRef' = TRUE
    /\ lastTick' = NoTick
    /\ lastSwitch' = IF attackType # "none"
                     THEN [from |-> attackType, ticked |-> FALSE]
                     ELSE lastSwitch
    /\ lastOp' = "reset"
    /\ logCalls' = <<LogEntry(MsgReset, "info")>>
    /\ sinceStop' = StoppedBy("reset")
    /\ UNCHANGED <<variant, scan, cmVars, vsocActive, simSpeed, lidarRange, collisionRisk,
                   integrityScore, timers, noiseSeq, lastCall, ticks, metricUpdates,
                   v2Vars>>

\* the callback of setTimeout (lines 72-74)
TimerFires ==
    /\ variant = "vsoc"
    /\ timers > 0
    /\ timers' = timers - 1
    /\ logs' = AddLog(logs, MsgDeployed, "success")
    /\ lastOp' = "timer"
    /\ logCalls' = <<LogEntry(MsgDeployed, "success")>> \o logCalls
    /\ UNCHANGED sinceStop
    /\ UNCHANGED <<variant, scan, cmVars, isRunning, vsocActive, attackType, simSpeed, lidarRange,
                   collisionRisk, integrityScore, objects, requestRef, noiseSeq,
                   lastTick, lastSwitch, lastCall, boundVars, v2Vars>>

\* `Math.floor(time) % 10 === 0` (line 210)
Sampled(time) == time % 10 = 0

\* mutant: the world is updated whether the simulation runs or not
FrameObjectsIgnoresPause(running, prev, attack, vsoc, speed, rnd, idBase) ==
    UpdateObjects(prev, attack, vsoc, speed, rnd, idBase)

\* the object list a frame leaves: `if (isRunning)` of line 91 around the
\* updater of lines 94-162
FrameObjects(running, prev, attack, vsoc, speed, rnd, idBase) ==
    IF running THEN UpdateObjects(prev, attack, vsoc, speed, rnd, idBase) ELSE prev

\* animate (lines 81-215) with the canvas mounted, then the effect of lines 516-521
Animate(time, rnd) ==
    /\ variant = "vsoc"
    /\ requestRef
    /\ ticks < MaxTicks
    /\ Sampled(time) => metricUpdates < MaxMetricUpdates
    /\ ticks' = ticks + 1
    /\ objects' = FrameObjects(isRunning, objects, attackType, vsocActive, simSpeed,
                               rnd, noiseSeq)
    /\ IF isRunning
       THEN /\ noiseSeq' = IF attackType = "saturation" THEN noiseSeq + noiseCount
                           ELSE noiseSeq
            /\ lastTick' = [done |-> TRUE, attackType |-> attackType,
                            vsocActive |-> vsocActive, simSpeed |-> simSpeed,
                            before |-> objects]
            /\ lastSwitch' = [lastSwitch EXCEPT !.ticked = TRUE]
       ELSE UNCHANGED <<noiseSeq, lastTick, lastSwitch>>
    /\ IF Sampled(time)
       THEN LET dist == CalculateLidar(objects, attackType, lidarRange)
                target == RiskTargets(attackType, vsocActive, dist)
            IN  /\ collisionRisk' = Smooth(collisionRisk, target.risk)
                /\ integrityScore' = Smooth(integrityScore, target.integrity)
                /\ lastCall' = [done |-> TRUE, attackType |-> attackType,
                                vsocActive |-> vsocActive, dist |-> dist,
                                risk |-> target.risk, integrity |-> target.integrity,
                                prevRisk |-> collisionRisk,
                                prevIntegrity |-> integrityScore]
                /\ metricUpdates' = metricUpdates + 1
       ELSE UNCHANGED <<collisionRisk, integrityScore, lastCall, metricUpdates>>
    /\ requestRef' = TRUE
    /\ lastOp' = "animate"
    /\ UNCHANGED logCalls
    /\ sinceStop' = FrameSinceStop(sinceStop, Sampled(time))
    /\ UNCHANGED <<variant, scan, cmVars, isRunning, vsocActive, attackType, simSpeed, lidarRange,
                   logs, timers, clicks, v2Vars>>

\* animate when canvasRef.current or canvas.getContext('2d') is null: the
\* early return of lines 81-85, which requests no frame and sets no state, so
\* that no effect runs after it
AnimateSkipped ==
    /\ variant = "vsoc"
    /\ requestRef
    /\ ticks < MaxTicks
    /\ ticks' = ticks + 1
    /\ requestRef' = FALSE
    /\ lastOp' = "animateSkipped"
    /\ UNCHANGED logCalls
    /\ UNCHANGED sinceStop
    /\ UNCHANGED <<variant, scan, cmVars, isRunning, vsocActive, attackType, simSpeed, lidarRange,
                   collisionRisk, integrityScore, logs, objects, timers, noiseSeq,
                   lastTick, lastSwitch, lastCall, clicks, metricUpdates, v2Vars>>

VsocNext ==
    \/ ToggleVsoc
    \/ ToggleRunning
    \/ \E a \in AttackTypes : SetAttackType(a)
    \/ \E s \in SpeedChoices : SetSimSpeed(s)
    \/ \E r \in RangeChoices : SetLidarRange(r)
    \/ Reset
    \/ TimerFires
    \/ \E time \in FrameTimes, rnd \in RandomDraws : Animate(time, rnd)

----------------------------------------------------------------------------
(* v2.0 variant: the object list (lines 819-823, 863-918, 1192-1201). *)

V2Obj(id, type, x, y, w, h) ==
    [id |-> id, type |-> type, x |-> x, y |-> y, width |-> w, height |-> h,
     hidden |-> FALSE]

V2InitialObjects ==
    << V2Obj(NumId(1), "vehicle", 600, 290, 60, 40),
       V2Obj(NumId(2), "pedestrian", 900, 280, 30, 50),
       V2Obj(NumId(3), "obstacle", 1400, 310, 40, 40) >>

V2ResetObjects ==
    << V2Obj(NumId(1), "vehicle", 600, 290, 60, 40),
       V2Obj(NumId(2), "pedestrian", 900, 280, 30, 50) >>

V2MoveObjects(prev, speed) ==
    [i \in DOMAIN prev |-> [prev[i] EXCEPT !.x = @ - speed]]

V2RespawnObjects(objs, rnd) ==
    [i \in DOMAIN objs |->
        IF objs[i].x + objs[i].width < 0
        THEN [objs[i] EXCEPT !.x = canvasWidth + 200 + (RespawnJitter(rnd, i) % 500),
                             !.hidden = FALSE]
        ELSE objs[i]]

\* `chance` is the outcome of `Math.random() > 0.8` (line 884)
V2SaturationStep(objs, attack, chance, rnd, idBase) ==
    IF attack = "saturation"
    THEN WithoutTypes(objs, {"noise"}) \o
         (IF chance
          THEN << V2Obj(NoiseId(idBase), "noise", 150 + (rnd % 300),
                        250 + (rnd % 150), 5, 5) >>
          ELSE << >>)
    ELSE objs

\* `chance` is the outcome of `Math.random() > 0.98` (line 896)
V2PhantomStep(objs, attack, chance) ==
    IF attack = "phantom" /\ ~HasPhantom(objs) /\ chance
    THEN Append(objs, V2Obj(PhantomId, "phantom", 300, 300, 40, 40))
    ELSE objs

V2HidingStep(objs, attack) ==
    IF attack = "hiding"
    THEN [i \in DOMAIN objs |->
            [objs[i] EXCEPT !.hidden =
                objs[i].type # "phantom" /\ objs[i].x > 150 /\ objs[i].x < 400]]
    ELSE objs

V2UpdateObjects(prev, attack, speed, rnd, chance, idBase) ==
    V2HidingStep(
      V2PhantomStep(
        V2SaturationStep(V2RespawnObjects(V2MoveObjects(prev, speed), rnd),
                         attack, chance, rnd, idBase),
        attack, chance),
      attack)

\* mutant: the updater filters but does not clear the hidden flags
V2NormalizeKeepsHidden(prev) == WithoutTypes(prev, {"phantom", "noise"})

\* the setObjects updater of the effect on [attackType] (line 842)
V2Normalize(prev) ==
    LET kept == WithoutTypes(prev, {"phantom", "noise"})
    IN  [i \in DOMAIN kept |-> [kept[i] EXCEPT !.hidden = FALSE]]

----------------------------------------------------------------------------
(* v2.0 variant: calculateLidar (lines 1059-1134).  The fan is the one of the *)
(* VSOC variant (40 rays, PI/3); the sensor and the hit box differ, and       *)
(* attackType is not read.                                                    *)

V2sensorX == 100
V2sensorY == 275

V2EndX4(i, range) == V2sensorX * 10000 + Cos4(i) * range
V2EndY4(i, range) == V2sensorY * 10000 + Sin4(i) * range

\* the hit test of one ray against one object (lines 1083-1091)
V2RayHits(i, obj, range) ==
    /\ ~obj.hidden
    /\ V2EndY4(i, range) > obj.y * 10000
    /\ V2EndY4(i, range) < (obj.y + obj.height) * 10000
    /\ V2EndX4(i, range) > obj.x * 10000
    /\ V2EndX4(i, range) < (obj.x + obj.width + 50) * 10000

V2HitIndex(i, objs, range) ==
    LET hits == {k \in DOMAIN objs : V2RayHits(i, objs[k], range)}
    IN  IF hits = {} THEN 0
        ELSE CHOOSE k \in hits : \A m \in hits : k <= m

\* d of lines 1094-1099 in hundredths
V2HitDist(i, obj) ==
    ((Max(V2sensorX, obj.x) - V2sensorX) * 1000000) \div Cos4(i)

V2RayDist(i, objs, range) ==
    LET k == V2HitIndex(i, objs, range)
    IN  IF k = 0 THEN Null ELSE V2HitDist(i, objs[k])

V2CalculateLidar(objs, range) ==
    LET dists == {V2RayDist(i, objs, range) : i \in Rays} \ {Null}
    IN  IF dists = {} THEN Null
        ELSE CHOOSE d \in dists : \A e \in dists : d <= e

----------------------------------------------------------------------------
(* v2.0 variant: calculateRiskMetrics (lines 1136-1180). *)

\* `objects.some(o => o.x > 100 && o.x < 400)` (line 1157)
V2RealDanger(objs) == \E k \in DOMAIN objs : objs[k].x > 100 /\ objs[k].x < 400

\* risk of lines 1141-1145, dist in hundredths
V2BaseRisk(dist) ==
    IF dist = Null THEN 0
    ELSE IF dist < 100 * 100 THEN 90
    ELSE IF dist < 200 * 100 THEN 40
    ELSE 10

\* the targets `risk` and `detection` before the smoothing (lines 1138-1176)
V2RiskTargets(attack, dist, objs) ==
    CASE attack = "hiding" ->
           IF dist = Null
           THEN [risk |-> IF V2RealDanger(objs) THEN 95 ELSE V2BaseRisk(dist),
                 detection |-> 0]
           ELSE [risk |-> V2BaseRisk(dist), detection |-> 100]
      [] attack = "phantom" ->
           IF dist # Null /\ dist < 150 * 100
           THEN [risk |-> 80, detection |-> 50]
           ELSE [risk |-> V2BaseRisk(dist), detection |-> 100]
      [] attack = "saturation" -> [risk |-> 60, detection |-> 15]
      [] attack = "relay" -> [risk |-> 75, detection |-> 60]
      [] OTHER -> [risk |-> V2BaseRisk(dist), detection |-> 100]

V2NoCall ==
    [done |-> FALSE, attackType |-> "none", dist |-> Null, risk |-> 0,
     detection |-> 0, prevRisk |-> 0, prevDetection |-> 0]

----------------------------------------------------------------------------
(* v2.0 variant: the event log (lines 826-836) and the effect of lines 839-847. *)

V2AddLog(prev, message, type) ==
    SubSeq(<<LogEntry(message, type)>> \o prev, 1,
           IF Len(prev) + 1 < 6 THEN Len(prev) + 1 ELSE 6)

V2MsgNormalized == <<"System normalized. Attack countermeasures engaged.", "">>
V2MsgDetected(attack) == <<"WARNING: attack signature detected.", attack>>
V2MsgReset == <<"Simulation reset.", "">>

V2AttackEffectObjects(prev, attack) ==
    IF attack = "none" THEN V2Normalize(prev) ELSE prev

V2AttackEffectLogs(prev, attack) ==
    IF attack = "none" THEN V2AddLog(prev, V2MsgNormalized, "info")
    ELSE V2AddLog(prev, V2MsgDetected(attack), "alert")

\* the addLog call of that effect
V2AttackEffectCalls(attack) ==
    IF attack = "none" THEN <<LogEntry(V2MsgNormalized, "info")>>
    ELSE <<LogEntry(V2MsgDetected(attack), "alert")>>

\* the log after the effect has run at mount and for each attack mode of `seq`
RECURSIVE V2LogsAfter(_, _)
V2LogsAfter(prev, seq) ==
    IF seq = << >> THEN prev
    ELSE V2LogsAfter(V2AttackEffectLogs(prev, Head(seq)), Tail(seq))

\* the closure a scheduled frame runs, and no pending frame
V2Closure(attack, speed, range, objs) ==
    [pending |-> TRUE, attackType |-> attack, simSpeed |-> speed,
     lidarRange |-> range, objects |-> objs]
NoFrame ==
    [pending |-> FALSE, attackType |-> "none", simSpeed |-> 0,
     lidarRange |-> 0, objects |-> << >>]

\* the effect of lines 1183-1190, after its cleanup: a frame only while running
V2Schedule(running, attack, speed, range, objs) ==
    IF running THEN V2Closure(attack, speed, range, objs) ELSE NoFrame

IdsOf(objs) == [i \in DOMAIN objs |-> objs[i].id]

\* history of a change of attackType: the ids of the real objects then in the list,
\* the mode left, whether an object was hidden, whether a frame scheduled before
\* the change has run before its effects, whether a frame has run after them
V2Switch(ids, from, hiddenBefore) ==
    [realIds |-> ids, from |-> from, hiddenBefore |-> hiddenBefore,
     stale |-> FALSE, ticked |-> FALSE]

----------------------------------------------------------------------------
(* Start scenarios of the v2.0 variant, as for the VSOC variant. *)

V2Scenarios ==
    { [attack |-> "none", frames |-> 0],
      [attack |-> "hiding", frames |-> 60] }

RECURSIVE V2RunFrames(_, _, _)
V2RunFrames(objs, attack, n) ==
    IF n = 0 THEN objs
    ELSE IF n = 1 THEN V2UpdateObjects(objs, attack, 4, 0, FALSE, 0)
    ELSE LET half == V2RunFrames(objs, attack, n \div 2)
         IN  \* the comparison makes TLC evaluate the list before it goes on
             IF half = << >> THEN half
             ELSE V2RunFrames(half, attack, n - (n \div 2))

\* after the mount the effect of lines 839-847 has run once, with 'none'
V2Started(sc) ==
    /\ v2_isRunning = (sc.frames > 0)
    /\ v2_attackType = sc.attack
    /\ v2_simSpeed = 4
    /\ v2_objects = V2RunFrames(V2Normalize(V2InitialObjects), sc.attack, sc.frames)
    /\ v2_logs = V2LogsAfter(<< >>, <<"none">> \o Switches(sc)
                                     \o (IF sc.attack = "none" /\ Switches(sc) = << >>
                                         THEN << >> ELSE <<sc.attack>>))
    /\ v2_lidarRange = 350
    /\ v2_detectionRate = 100 * MetricScale
    /\ v2_collisionRisk = 0
    /\ v2_nearestObjectDist =
          IF sc.frames = 0 THEN Null
          ELSE V2CalculateLidar(
                  V2RunFrames(V2Normalize(V2InitialObjects), sc.attack, sc.frames - 1),
                  350)
    /\ v2_frame = V2Schedule(sc.frames > 0, sc.attack, 4, 350, v2_objects)
    /\ v2_effects = FALSE
    /\ v2_lastSwitch = V2Switch(IdsOf(V2InitialObjects), "none", FALSE)
    /\ v2_lastCall = V2NoCall

----------------------------------------------------------------------------
(* v2.0 variant: the handlers. *)

\* onClick of an attack button (line 1256): the commit of the new attackType
V2SetAttackType(a) ==
    /\ variant = "v2"
    /\ clicks < MaxClicks
    /\ ~v2_effects
    /\ a # v2_attackType
    /\ clicks' = clicks + 1
    /\ v2_attackType' = a
    /\ v2_effects' = TRUE
    /\ v2_lastSwitch' =
          V2Switch(IdsOf(WithoutTypes(v2_objects, {"phantom", "noise"})), v2_attackType,
                   \E i \in DOMAIN v2_objects : v2_objects[i].hidden)
    /\ lastOp' = "setAttackType"
    /\ UNCHANGED logCalls
    /\ UNCHANGED sinceStop
    /\ UNCHANGED <<variant, scan, cmVars, vsocVars, ticks, metricUpdates, v2_isRunning, v2_simSpeed,
                   v2_lidarRange, v2_objects, v2_logs, v2_frame, v2MetricVars>>

\* the effects of that commit: the cleanup of lines 1187-1189, then the effect of
\* lines 839-847, then the effect of lines 1183-1186
V2RunEffects ==
    /\ variant = "v2"
    /\ v2_effects
    /\ v2_effects' = FALSE
    /\ v2_objects' = V2AttackEffectObjects(v2_objects, v2_attackType)
    /\ v2_logs' = V2AttackEffectLogs(v2_logs, v2_attackType)
    /\ v2_frame' = V2Schedule(v2_isRunning, v2_attackType, v2_simSpeed, v2_lidarRange,
                              v2_objects')
    /\ lastOp' = "effects"
    /\ logCalls' = V2AttackEffectCalls(v2_attackType) \o logCalls
    /\ UNCHANGED sinceStop
    /\ UNCHANGED <<variant, scan, cmVars, vsocVars, boundVars, v2_isRunning, v2_attackType,
                   v2_simSpeed, v2_lidarRange, v2_lastSwitch, v2MetricVars>>

\* onClick of the RUN / PAUSE button (line 1217), then the effect of lines 1183-1190
V2ToggleRunning ==
    /\ variant = "v2"
    /\ clicks < MaxClicks
    /\ ~v2_effects
    /\ clicks' = clicks + 1
    /\ v2_isRunning' = ~v2_isRunning
    /\ v2_frame' = V2Schedule(~v2_isRunning, v2_attackType, v2_simSpeed, v2_lidarRange,
                              v2_objects)
    /\ lastOp' = "toggleRunning"
    /\ UNCHANGED logCalls
    /\ sinceStop' = IF v2_isRunning THEN StoppedBy("pause") ELSE NotStopped
    /\ UNCHANGED <<variant, scan, cmVars, vsocVars, ticks, metricUpdates, v2_attackType, v2_simSpeed,
                   v2_lidarRange, v2_objects, v2_logs, v2_effects, v2_lastSwitch,
                   v2MetricVars>>

\* onChange of the speed slider (line 1284), then the effect of lines 1183-1190
V2SetSimSpeed(s) ==
    /\ variant = "v2"
    /\ clicks < MaxClicks
    /\ ~v2_effects
    /\ s # v2_simSpeed
    /\ clicks' = clicks + 1
    /\ v2_simSpeed' = s
    /\ v2_frame' = V2Schedule(v2_isRunning, v2_attackType, s, v2_lidarRange, v2_objects)
    /\ lastOp' = "setSimSpeed"
    /\ UNCHANGED logCalls
    /\ UNCHANGED sinceStop
    /\ UNCHANGED <<variant, scan, cmVars, vsocVars, ticks, metricUpdates, v2_isRunning, v2_attackType,
                   v2_lidarRange, v2_objects, v2_logs, v2_effects, v2_lastSwitch,
                   v2MetricVars>>

\* onChange of the range slider (line 1296), then the effect of lines 1183-1190
V2SetLidarRange(r) ==
    /\ variant = "v2"
    /\ clicks < MaxClicks
    /\ ~v2_effects
    /\ r # v2_lidarRange
    /\ clicks' = clicks + 1
    /\ v2_lidarRange' = r
    /\ v2_frame' = V2Schedule(v2_isRunning, v2_attackType, v2_simSpeed, r, v2_objects)
    /\ lastOp' = "setLidarRange"
    /\ UNCHANGED logCalls
    /\ UNCHANGED sinceStop
    /\ UNCHANGED <<variant, scan, cmVars, vsocVars, ticks, metricUpdates, v2_isRunning, v2_attackType,
                   v2_simSpeed, v2_objects, v2_logs, v2_effects, v2_lastSwitch,
                   v2MetricVars>>

\* reset (lines 1192-1201), then the effects of its commit
V2Reset ==
    /\ variant = "v2"
    /\ clicks < MaxClicks
    /\ ~v2_effects
    /\ clicks' = clicks + 1
    /\ v2_isRunning' = FALSE
    /\ v2_attackType' = "none"
    /\ v2_objects' = IF v2_attackType # "none"
                     THEN V2AttackEffectObjects(V2ResetObjects, "none")
                     ELSE V2ResetObjects
    /\ v2_logs' = IF v2_attackType # "none"
                  THEN V2AttackEffectLogs(V2AddLog(<< >>, V2MsgReset, "info"), "none")
                  ELSE V2AddLog(<< >>, V2MsgReset, "info")
    /\ v2_frame' = NoFrame
    /\ v2_lastSwitch' = V2Switch(IdsOf(V2ResetObjects), v2_attackType, FALSE)
    /\ lastOp' = "reset"
    /\ logCalls' = IF v2_attackType # "none"
                   THEN V2AttackEffectCalls("none") \o <<LogEntry(V2MsgReset, "info")>>
                   ELSE <<LogEntry(V2MsgReset, "info")>>
    /\ sinceStop' = StoppedBy("reset")
    /\ UNCHANGED <<variant, scan, cmVars, vsocVars, ticks, metricUpdates, v2_simSpeed, v2_lidarRange,
                   v2_effects, v2MetricVars>>

\* animate (lines 850-956) run by the pending frame, with the values of the
\* render that scheduled it: the updater of lines 863-918 is applied to the
\* current list, calculateLidar and calculateRiskMetrics read the closure.
\* Then the effect of lines 1183-1190, whose dependency `objects` has changed;
\* while the effects of an attack switch are still due it has not run yet and
\* the frame animate requested (line 955) carries the same closure.
V2Animate(time, rnd, chance) ==
    /\ variant = "v2"
    /\ v2_frame.pending
    /\ ticks < MaxTicks
    /\ Sampled(time) => metricUpdates < MaxMetricUpdates
    /\ ticks' = ticks + 1
    /\ v2_objects' = V2UpdateObjects(v2_objects, v2_frame.attackType,
                                     v2_frame.simSpeed, rnd, chance, ticks)
    /\ v2_lastSwitch' = IF v2_effects THEN [v2_lastSwitch EXCEPT !.stale = TRUE]
                        ELSE [v2_lastSwitch EXCEPT !.ticked = TRUE]
    /\ LET dist == V2CalculateLidar(v2_frame.objects, v2_frame.lidarRange)
           target == V2RiskTargets(v2_frame.attackType, dist, v2_frame.objects)
       IN  /\ v2_nearestObjectDist' = dist
           /\ IF Sampled(time)
              THEN /\ v2_detectionRate' = Smooth(v2_detectionRate, target.detection)
                   /\ v2_collisionRisk' = Smooth(v2_collisionRisk, target.risk)
                   /\ v2_lastCall' = [done |-> TRUE, attackType |-> v2_frame.attackType,
                                      dist |-> dist, risk |-> target.risk,
                                      detection |-> target.detection,
                                      prevRisk |-> v2_collisionRisk,
                                      prevDetection |-> v2_detectionRate]
                   /\ metricUpdates' = metricUpdates + 1
              ELSE UNCHANGED <<v2_detectionRate, v2_collisionRisk, v2_lastCall,
                               metricUpdates>>
    /\ v2_frame' = IF v2_effects THEN v2_frame
                   ELSE V2Schedule(v2_isRunning, v2_attackType, v2_simSpeed,
                                   v2_lidarRange, v2_objects')
    /\ lastOp' = "animate"
    /\ UNCHANGED logCalls
    /\ sinceStop' = FrameSinceStop(sinceStop, Sampled(time))
    /\ UNCHANGED <<variant, scan, cmVars, vsocVars, clicks, v2_isRunning, v2_attackType,
                   v2_simSpeed, v2_lidarRange, v2_logs, v2_effects>>

V2Next ==
    \/ \E a \in AttackTypes : V2SetAttackType(a)
    \/ V2RunEffects
    \/ V2ToggleRunning
    \/ \E s \in SpeedChoices : V2SetSimSpeed(s)
    \/ \E r \in RangeChoices : V2SetLidarRange(r)
    \/ V2Reset
    \/ \E time \in FrameTimes, rnd \in RandomDraws, chance \in BOOLEAN :
          V2Animate(time, rnd, chance)

----------------------------------------------------------------------------
(* Countermeasures variant (src/unnamed/part_002).  Positions are held in    *)
(* units of 1 / cmStep pixel, the step of the speed slider being 0.5; the     *)
(* metrics in hundredths.                                                     *)

cmStep == 2
cmCanvasWidth == 800
CmAttackTypes == {"none", "phantom", "hiding", "relay", "saturation"}
CmFlags == {"sensorFusion", "signalAuth", "anomalyDetection", "temporalTracking"}

CmObj(id, type, x, y, w, h) ==
    [id |-> id, type |-> type, x |-> x * cmStep, y |-> y * cmStep,
     width |-> w * cmStep, height |-> h * cmStep, hidden |-> FALSE]

\* the list of lines 57-61, which reset sets again (lines 380-384)
CmInitialObjects ==
    << CmObj(NumId(1), "pedestrian", 400, 280, 40, 60),
       CmObj(NumId(2), "vehicle", 600, 290, 50, 50),
       CmObj(NumId(3), "obstacle", 300, 320, 30, 30) >>

CmInitialCarPos == [x |-> 100 * cmStep, y |-> 300 * cmStep]
CmNoCountermeasures == [f \in CmFlags |-> FALSE]

CmAbs(n) == IF n < 0 THEN -n ELSE n

\* applyAttack (lines 132-183): the spoofed list it leaves
CmSpoofed(attack, time, carPos, real, spoofed, rnd) ==
    CASE attack = "phantom" ->
           IF time % 60 = 0
           THEN << [CmObj(<<"p", 1>>, "phantom", 0, 280, 40, 60)
                       EXCEPT !.x = carPos.x + 200 * cmStep],
                   [CmObj(<<"p", 2>>, "phantom", 0, 300, 50, 50)
                       EXCEPT !.x = carPos.x + 350 * cmStep] >>
           ELSE spoofed
      [] attack = "hiding" -> spoofed
      [] attack = "relay" ->
           IF time % 3 = 0
           THEN [k \in DOMAIN real |->
                   [real[k] EXCEPT !.x = @ + 100 * cmStep, !.y = @ - 50 * cmStep,
                                   !.type = "relayed", !.id = <<"relay", real[k].id>>]]
           ELSE spoofed
      [] attack = "saturation" ->
           IF time % 20 = 0
           THEN [i \in 1..noiseCount |->
                   [CmObj(<<"noise", i - 1>>, "noise", 0, 0, 20, 20)
                       EXCEPT !.x = carPos.x + 150 * cmStep + ((rnd * 397 + i * 53) % 600),
                              !.y = 260 * cmStep + ((rnd * 101 + i * 17) % 240)]]
           ELSE spoofed
      [] OTHER -> << >>

\* applyAttack (lines 132-183): the updater it queues for the real objects
CmReal(attack, time, carPos, real) ==
    CASE attack = "hiding" ->
           IF time % 5 = 0
           THEN [k \in DOMAIN real |->
                   [real[k] EXCEPT !.hidden = CmAbs(real[k].x - carPos.x) < 250 * cmStep]]
           ELSE real
      [] attack \in {"phantom", "relay", "saturation"} -> real
      [] OTHER -> [k \in DOMAIN real |-> [real[k] EXCEPT !.hidden = FALSE]]

\* the car after lines 118-123: the updater, then the wrap-around set over it
CmMoveCar(carPos, speed) ==
    IF carPos.x > (cmCanvasWidth + 50) * cmStep
    THEN [x |-> -50 * cmStep, y |-> 300 * cmStep]
    ELSE [carPos EXCEPT !.x = @ + speed]

CmSum(cm, gains) ==
    (IF cm.sensorFusion THEN gains.sensorFusion ELSE 0)
    + (IF cm.signalAuth THEN gains.signalAuth ELSE 0)
    + (IF cm.anomalyDetection THEN gains.anomalyDetection ELSE 0)
    + (IF cm.temporalTracking THEN gains.temporalTracking ELSE 0)

CmGains(sf, sa, ad, tt) ==
    [sensorFusion |-> sf, signalAuth |-> sa, anomalyDetection |-> ad,
     temporalTracking |-> tt]

\* baseDetection, baseCollision and mitigation of updateMetrics (lines 277-367)
CmBase(attack, cm) ==
    CASE attack = "phantom" ->
           [detection |-> 45 + CmSum(cm, CmGains(25, 0, 15, 10)),
            collision |-> 75 - CmSum(cm, CmGains(30, 0, 20, 15)),
            mitigation |-> CmSum(cm, CmGains(35, 0, 25, 20))]
      [] attack = "hiding" ->
           [detection |-> 35 + CmSum(cm, CmGains(35, 0, 10, 20)),
            collision |-> 90 - CmSum(cm, CmGains(40, 0, 15, 25)),
            mitigation |-> CmSum(cm, CmGains(45, 0, 15, 30))]
      [] attack = "relay" ->
           [detection |-> 50 + CmSum(cm, CmGains(20, 30, 0, 15)),
            collision |-> 70 - CmSum(cm, CmGains(25, 35, 0, 15)),
            mitigation |-> CmSum(cm, CmGains(30, 40, 0, 20))]
      [] attack = "saturation" ->
           [detection |-> 25 + CmSum(cm, CmGains(15, 25, 30, 0)),
            collision |-> 65 - CmSum(cm, CmGains(15, 25, 30, 0)),
            mitigation |-> CmSum(cm, CmGains(20, 35, 40, 0))]
      [] OTHER -> [detection |-> 95, collision |-> 5, mitigation |-> 0]

CmMin(a, b) == IF a <= b THEN a ELSE b

\* mutant: the published values are not clamped
CmUpdateMetricsUnclamped(attack, cm, r1, r2) ==
    LET base == CmBase(attack, cm)
    IN  [detection |-> base.detection * 100 + r1,
         collision |-> base.collision * 100 + r2,
         mitigation |-> base.mitigation * 100]

\* the values updateMetrics publishes (lines 369-371), in hundredths; r1 and r2
\* are Math.random() * 5 in hundredths
CmUpdateMetrics(attack, cm, r1, r2) ==
    LET base == CmBase(attack, cm)
    IN  [detection |-> CmMin(100 * 100, base.detection * 100 + r1),
         collision |-> Max(0, base.collision * 100 + r2),
         mitigation |-> CmMin(100, base.mitigation) * 100]

\* mutant: the cleanup cancels nothing
CmCancelNothing(pending, ref) == pending

\* the frame callbacks: cancelAnimationFrame of lines 70-72
CmCancel(pending, ref) == IF ref # 0 THEN pending \ {ref} ELSE pending

\* mutant: the effect has no cleanup
CmEffectWithoutCleanup(pending, ref, requests, running) ==
    IF running
    THEN [pending |-> pending \cup {requests + 1}, ref |-> requests + 1,
          requests |-> requests + 1]
    ELSE [pending |-> pending, ref |-> ref, requests |-> requests]

\* the effect of lines 65-75 after a commit that changed one of its
\* dependencies: the cleanup of the previous run, then its body
CmEffect(pending, ref, requests, running) ==
    IF running
    THEN [pending |-> CmCancel(pending, ref) \cup {requests + 1}, ref |-> requests + 1,
          requests |-> requests + 1]
    ELSE [pending |-> CmCancel(pending, ref), ref |-> ref, requests |-> requests]

\* Math.random() * 5 in hundredths, and the speed and range sliders
CmRandomDraws == {0, 499}
CmSpeedChoices == {1, 10}
CmRangeChoices == {200, 600}

\* the world after one frame of a run under `attack`, as animate leaves it
CmTick(w, attack, speed, rnd) ==
    [time |-> w.time + 1,
     carPos |-> CmMoveCar(w.carPos, speed),
     realObjects |-> CmReal(attack, w.time, w.carPos, w.realObjects),
     spoofedObjects |-> CmSpoofed(attack, w.time, w.carPos, w.realObjects,
                                  w.spoofedObjects, rnd)]

CmMounted ==
    [time |-> 0, carPos |-> CmInitialCarPos, realObjects |-> CmInitialObjects,
     spoofedObjects |-> << >>]

RECURSIVE CmRunFrames(_, _, _)
CmRunFrames(w, attack, n) ==
    IF n = 0 THEN w ELSE CmRunFrames(CmTick(w, attack, 2 * cmStep, 0), attack, n - 1)

\* start states: the mounted component, or a run under an attack after `frames`
CmScenarios ==
    { [attack |-> "none", frames |-> 0],
      [attack |-> "hiding", frames |-> 3] }

\* no frame callback has run yet
CmNoFrame == [ran |-> FALSE, time |-> 0, pending |-> {}]

\* the countermeasures the user ticked before a start state
CmTicked(sc) == IF "flags" \in DOMAIN sc THEN sc.flags ELSE CmNoCountermeasures

CmStarted(sc) ==
    LET w == CmRunFrames(CmMounted, sc.attack, sc.frames)
        m == CmUpdateMetrics(sc.attack, CmTicked(sc), 0, 0)
    IN  /\ cm_isRunning = (sc.frames > 0)
        /\ cm_attackType = sc.attack
        /\ cm_detectionRate = IF sc.frames > 0 THEN m.detection ELSE 100 * 100
        /\ cm_collisionRisk = IF sc.frames > 0 THEN m.collision ELSE 0
        /\ cm_mitigationScore = IF sc.frames > 0 THEN m.mitigation ELSE 0
        /\ cm_time = w.time
        /\ cm_countermeasures = CmTicked(sc)
        /\ cm_carPos = w.carPos
        /\ cm_realObjects = w.realObjects
        /\ cm_spoofedObjects = w.spoofedObjects
        /\ cm_carSpeed = 2 * cmStep
        /\ cm_lidarRange = 400
        /\ cm_requests = 2 * sc.frames + (IF sc.frames > 0 THEN 1 ELSE 0)
        /\ cm_animationRef = cm_requests
        /\ cm_pending = IF sc.frames > 0 THEN {cm_requests} ELSE {}
        /\ cm_lastFrame = CmNoFrame

\* the frame callbacks after a handler's commit
CmAfterCommit(running) ==
    LET e == CmEffect(cm_pending, cm_animationRef, cm_requests, running)
    IN  /\ cm_pending' = e.pending
        /\ cm_animationRef' = e.ref
        /\ cm_requests' = e.requests

\* onClick of the Start / Pause button (line 592), then the effect of lines 65-75
CmToggleRunning ==
    /\ variant = "cm"
    /\ clicks < MaxClicks
    /\ clicks' = clicks + 1
    /\ cm_isRunning' = ~cm_isRunning
    /\ CmAfterCommit(~cm_isRunning)
    /\ lastOp' = "toggleRunning"
    /\ UNCHANGED logCalls
    /\ sinceStop' = IF cm_isRunning THEN StoppedBy("pause") ELSE NotStopped
    /\ UNCHANGED <<variant, scan, vsocVars, v2Vars, ticks, metricUpdates,
                   cm_attackType, cm_detectionRate, cm_collisionRisk, cm_time,
                   cm_countermeasures, cm_carPos, cm_realObjects, cm_spoofedObjects,
                   cm_carSpeed, cm_lidarRange, cm_mitigationScore, cm_lastFrame>>

\* onClick of an attack button (lines 418-442), then the effect of lines 65-75
CmSetAttackType(a) ==
    /\ variant = "cm"
    /\ clicks < MaxClicks
    /\ a # cm_attackType
    /\ clicks' = clicks + 1
    /\ cm_attackType' = a
    /\ CmAfterCommit(cm_isRunning)
    /\ lastOp' = "setAttackType"
    /\ UNCHANGED logCalls
    /\ UNCHANGED sinceStop
    /\ UNCHANGED <<variant, scan, vsocVars, v2Vars, ticks, metricUpdates,
                   cm_isRunning, cm_detectionRate, cm_collisionRisk, cm_time,
                   cm_countermeasures, cm_carPos, cm_realObjects, cm_spoofedObjects,
                   cm_carSpeed, cm_lidarRange, cm_mitigationScore, cm_lastFrame>>

\* onChange of a countermeasure checkbox (lines 461-488), then the effect
CmToggleCountermeasure(f) ==
    /\ variant = "cm"
    /\ clicks < MaxClicks
    /\ clicks' = clicks + 1
    /\ cm_countermeasures' = [cm_countermeasures EXCEPT ![f] = ~@]
    /\ CmAfterCommit(cm_isRunning)
    /\ lastOp' = "setCountermeasures"
    /\ UNCHANGED logCalls
    /\ UNCHANGED sinceStop
    /\ UNCHANGED <<variant, scan, vsocVars, v2Vars, ticks, metricUpdates,
                   cm_isRunning, cm_attackType, cm_detectionRate, cm_collisionRisk,
                   cm_time, cm_carPos, cm_realObjects, cm_spoofedObjects,
                   cm_carSpeed, cm_lidarRange, cm_mitigationScore, cm_lastFrame>>

\* onChange of the speed slider (line 567), then the effect
CmSetCarSpeed(v) ==
    /\ variant = "cm"
    /\ clicks < MaxClicks
    /\ v # cm_carSpeed
    /\ clicks' = clicks + 1
    /\ cm_carSpeed' = v
    /\ CmAfterCommit(cm_isRunning)
    /\ lastOp' = "setCarSpeed"
    /\ UNCHANGED logCalls
    /\ UNCHANGED sinceStop
    /\ UNCHANGED <<variant, scan, vsocVars, v2Vars, ticks, metricUpdates,
                   cm_isRunning, cm_attackType, cm_detectionRate, cm_collisionRisk,
                   cm_time, cm_countermeasures, cm_carPos, cm_realObjects,
                   cm_spoofedObjects, cm_lidarRange, cm_mitigationScore, cm_lastFrame>>

\* onChange of the range slider (line 582), then the effect
CmSetLidarRange(r) ==
    /\ variant = "cm"
    /\ clicks < MaxClicks
    /\ r # cm_lidarRange
    /\ clicks' = clicks + 1
    /\ cm_lidarRange' = r
    /\ CmAfterCommit(cm_isRunning)
    /\ lastOp' = "setLidarRange"
    /\ UNCHANGED logCalls
    /\ UNCHANGED sinceStop
    /\ UNCHANGED <<variant, scan, vsocVars, v2Vars, ticks, metricUpdates,
                   cm_isRunning, cm_attackType, cm_detectionRate, cm_collisionRisk,
                   cm_time, cm_countermeasures, cm_carPos, cm_realObjects,
                   cm_spoofedObjects, cm_carSpeed, cm_mitigationScore, cm_lastFrame>>

\* reset (lines 374-385), then the effect of lines 65-75
CmReset ==
    /\ variant = "cm"
    /\ clicks < MaxClicks
    /\ clicks' = clicks + 1
    /\ cm_isRunning' = FALSE
    /\ cm_carPos' = CmInitialCarPos
    /\ cm_time' = 0
    /\ cm_spoofedObjects' = << >>
    /\ cm_attackType' = "none"
    /\ cm_realObjects' = CmInitialObjects
    /\ CmAfterCommit(FALSE)
    /\ lastOp' = "reset"
    /\ UNCHANGED logCalls
    /\ sinceStop' = StoppedBy("reset")
    /\ UNCHANGED <<variant, scan, vsocVars, v2Vars, ticks, metricUpdates,
                   cm_detectionRate, cm_collisionRisk, cm_countermeasures,
                   cm_carSpeed, cm_lidarRange, cm_mitigationScore, cm_lastFrame>>

\* animate (lines 77-130) run by the pending frame f, with the canvas mounted:
\* the frame it requests while running (lines 127-129), then the commit of its
\* state changes and the effect of lines 65-75
CmAnimate(f, rnd, r1, r2) ==
    /\ variant = "cm"
    /\ f \in cm_pending
    /\ ticks < MaxTicks
    /\ ticks' = ticks + 1
    /\ LET w == CmTick([time |-> cm_time, carPos |-> cm_carPos,
                        realObjects |-> cm_realObjects,
                        spoofedObjects |-> cm_spoofedObjects],
                       cm_attackType, cm_carSpeed, rnd)
           m == CmUpdateMetrics(cm_attackType, cm_countermeasures, r1, r2)
           requested == IF cm_isRunning THEN {cm_requests + 1} ELSE {}
           e == CmEffect((cm_pending \ {f}) \cup requested,
                         IF cm_isRunning THEN cm_requests + 1 ELSE cm_animationRef,
                         IF cm_isRunning THEN cm_requests + 1 ELSE cm_requests,
                         cm_isRunning)
       IN  /\ cm_time' = w.time
           /\ cm_carPos' = w.carPos
           /\ cm_realObjects' = w.realObjects
           /\ cm_spoofedObjects' = w.spoofedObjects
           /\ cm_detectionRate' = m.detection
           /\ cm_collisionRisk' = m.collision
           /\ cm_mitigationScore' = m.mitigation
           /\ cm_pending' = e.pending
           /\ cm_animationRef' = e.ref
           /\ cm_requests' = e.requests
           /\ cm_lastFrame' = [ran |-> TRUE, time |-> cm_time,
                                pending |-> (cm_pending \ {f}) \cup requested]
    /\ lastOp' = "animate"
    /\ UNCHANGED logCalls
    /\ sinceStop' = FrameSinceStop(sinceStop, TRUE)
    /\ UNCHANGED <<variant, scan, vsocVars, v2Vars, clicks, metricUpdates,
                   cm_isRunning, cm_attackType, cm_countermeasures, cm_carSpeed,
                   cm_lidarRange>>

CmNext ==
    \/ CmToggleRunning
    \/ \E a \in CmAttackTypes : CmSetAttackType(a)
    \/ \E f \in CmFlags : CmToggleCountermeasure(f)
    \/ \E v \in CmSpeedChoices : CmSetCarSpeed(v)
    \/ \E r \in CmRangeChoices : CmSetLidarRange(r)
    \/ CmReset
    \/ \E f \in cm_pending, rnd \in RandomDraws, r1 \in CmRandomDraws,
          r2 \in CmRandomDraws : CmAnimate(f, rnd, r1, r2)

----------------------------------------------------------------------------
(* calculateLidar as a function of its arguments: the object list it is *)
(* given and the attackType and lidarRange it reads.                    *)

\* positions, kinds and ranges the function is applied to
ProbeXs == {130, 300, 480, 700}
ProbeYs == {300, 340}
ProbeKinds ==
    { [type |-> "pedestrian", hidden |-> FALSE],
      [type |-> "pedestrian", hidden |-> TRUE],
      [type |-> "phantom", hidden |-> FALSE] }
ProbeRanges == {100, 250, 400, 600}
ProbeAttacks == {"none", "relay"}

\* a 30 x 60 object, the size of the pedestrian of line 51
ProbeObj(n, k, x, y) ==
    [Obj(NumId(n), k.type, x, y, 30, 60) EXCEPT !.hidden = k.hidden]
V2ProbeObj(n, k, x, y) ==
    [V2Obj(NumId(n), k.type, x, y, 30, 60) EXCEPT !.hidden = k.hidden]

ProbeLists ==
    { <<ProbeObj(1, k, x, y)>> : k \in ProbeKinds, x \in ProbeXs, y \in ProbeYs }
    \cup
    { <<ProbeObj(1, k1, x1, y1), ProbeObj(2, k2, x2, y2)>> :
        k1 \in ProbeKinds, x1 \in ProbeXs, y1 \in ProbeYs,
        k2 \in ProbeKinds, x2 \in ProbeXs, y2 \in ProbeYs }
V2ProbeLists ==
    { <<V2ProbeObj(1, k, x, y)>> : k \in ProbeKinds, x \in ProbeXs, y \in ProbeYs }
    \cup
    { <<V2ProbeObj(1, k1, x1, y1), V2ProbeObj(2, k2, x2, y2)>> :
        k1 \in ProbeKinds, x1 \in ProbeXs, y1 \in ProbeYs,
        k2 \in ProbeKinds, x2 \in ProbeXs, y2 \in ProbeYs }

NoHits == [i \in Rays |-> 0]
ScanArgs(objs, attack, vsoc, range) ==
    [done |-> FALSE, objs |-> objs, attackType |-> attack, vsocActive |-> vsoc,
     lidarRange |-> range, hits |-> NoHits, checkXs |-> << >>, minDist |-> Null]
NoScan == ScanArgs(<< >>, "none", FALSE, 0)

\* calculateLidar of the VSOC variant (lines 416-485): per ray the object hit,
\* per object the x the hit test used, and minDist
LidarScan ==
    /\ variant = "vsoc"
    /\ scan # NoScan
    /\ ~scan.done
    /\ scan' = [scan EXCEPT
                  !.done = TRUE,
                  !.hits = [i \in Rays |->
                              HitIndex(i, scan.objs, scan.attackType, scan.lidarRange)],
                  !.checkXs = [k \in DOMAIN scan.objs |->
                                 CheckX(scan.objs[k], scan.attackType)],
                  !.minDist = CalculateLidar(scan.objs, scan.attackType,
                                             scan.lidarRange)]
    /\ UNCHANGED <<variant, vsocVars, v2Vars, cmVars, boundVars, histVars>>

\* calculateLidar of the v2.0 variant (lines 1059-1134)
V2LidarScan ==
    /\ variant = "v2"
    /\ scan # NoScan
    /\ ~scan.done
    /\ scan' = [scan EXCEPT
                  !.done = TRUE,
                  !.hits = [i \in Rays |-> V2HitIndex(i, scan.objs, scan.lidarRange)],
                  !.checkXs = [k \in DOMAIN scan.objs |-> scan.objs[k].x],
                  !.minDist = V2CalculateLidar(scan.objs, scan.lidarRange)]
    /\ UNCHANGED <<variant, vsocVars, v2Vars, cmVars, boundVars, histVars>>

----------------------------------------------------------------------------
(* The specifications. *)

NoScenario == {[attack |-> "none", frames |-> 0]}

\* the addLog calls behind the log of a start state: no call was suppressed
\* and none truncated
StartCalls ==
    IF variant = "vsoc" THEN logs ELSE IF variant = "v2" THEN v2_logs ELSE << >>

Init ==
    /\ variant \in {"vsoc", "v2"}
    /\ clicks = 0
    /\ ticks = 0
    /\ metricUpdates = 0
    /\ lastOp = "mount"
    /\ sinceStop = NotStopped
    /\ scan = NoScan
    /\ \E sc \in NoScenario : CmStarted(sc)
    /\ \E sc \in (IF variant = "vsoc" THEN Scenarios ELSE NoScenario) : VsocStarted(sc)
    /\ \E sc \in (IF variant = "v2" THEN V2Scenarios ELSE NoScenario) : V2Started(sc)
    /\ logCalls = StartCalls

Next == VsocNext \/ V2Next

\* every handler of both components
Spec == Init /\ [][Next]_vars

\* The object lists.  Left out are the steps that write only logs, timers,
\* lidarRange, the metrics and lastCall (TimerFires, SetLidarRange, the
\* sampled frames), none of which a step of this specification reads.
UnsampledTimes == {time \in FrameTimes : ~Sampled(time)}

WorldNext ==
    \/ ToggleVsoc
    \/ ToggleRunning
    \/ \E a \in AttackTypes : SetAttackType(a)
    \/ \E s \in SpeedChoices : SetSimSpeed(s)
    \/ Reset
    \/ \E time \in UnsampledTimes, rnd \in RandomDraws : Animate(time, rnd)
    \/ \E a \in AttackTypes : V2SetAttackType(a)
    \/ V2RunEffects
    \/ V2ToggleRunning
    \/ \E s \in SpeedChoices : V2SetSimSpeed(s)
    \/ V2Reset
    \/ \E time \in UnsampledTimes, rnd \in RandomDraws, chance \in BOOLEAN :
          V2Animate(time, rnd, chance)

SpecWorld == Init /\ [][WorldNext]_vars

\* The risk metrics of the VSOC variant.  Every frame is a sampled one (the
\* others only move the objects, as the start scenario has done); left out are
\* TimerFires, which writes only the log, and the speed slider.
RiskScenarios ==
    { [attack |-> "none", frames |-> 0],
      [attack |-> "none", frames |-> 119] }

RiskInit ==
    /\ variant = "vsoc"
    /\ clicks = 0
    /\ ticks = 0
    /\ metricUpdates = 0
    /\ lastOp = "mount"
    /\ sinceStop = NotStopped
    /\ scan = NoScan
    /\ \E sc \in NoScenario : CmStarted(sc)
    /\ \E sc \in RiskScenarios : VsocStarted(sc)
    /\ \E sc \in NoScenario : V2Started(sc)
    /\ logCalls = StartCalls

RiskNext ==
    \/ ToggleVsoc
    \/ ToggleRunning
    \/ \E a \in AttackTypes : SetAttackType(a)
    \/ \E r \in RangeChoices : SetLidarRange(r)
    \/ Reset
    \/ \E time \in FrameTimes \ UnsampledTimes, rnd \in RandomDraws :
          Animate(time, rnd)

SpecRisk == RiskInit /\ [][RiskNext]_vars

\* The risk metrics of both variants: the steps of SpecRisk, and for the v2.0
\* variant the same selection, every frame a sampled one.
MetricsInit ==
    /\ variant \in {"vsoc", "v2"}
    /\ clicks = 0
    /\ ticks = 0
    /\ metricUpdates = 0
    /\ lastOp = "mount"
    /\ sinceStop = NotStopped
    /\ scan = NoScan
    /\ \E sc \in NoScenario : CmStarted(sc)
    /\ \E sc \in (IF variant = "vsoc" THEN RiskScenarios ELSE NoScenario) :
          VsocStarted(sc)
    /\ \E sc \in (IF variant = "v2" THEN V2Scenarios ELSE NoScenario) : V2Started(sc)
    /\ logCalls = StartCalls

V2RiskNext ==
    \/ \E a \in AttackTypes : V2SetAttackType(a)
    \/ V2RunEffects
    \/ V2ToggleRunning
    \/ \E r \in RangeChoices : V2SetLidarRange(r)
    \/ V2Reset
    \/ \E time \in FrameTimes \ UnsampledTimes, rnd \in RandomDraws,
          chance \in BOOLEAN : V2Animate(time, rnd, chance)

MetricsNext == RiskNext \/ V2RiskNext

SpecMetrics == MetricsInit /\ [][MetricsNext]_vars

\* The event logs of both variants: the handlers that call addLog or
\* setLogs and the timer callback.  A start state is the mounted component
\* or the component after the user has switched through four attack modes.
LogScenarios ==
    { [attack |-> "none", frames |-> 0],
      [attack |-> "phantom", frames |-> 0,
       switches |-> <<"phantom", "hiding", "relay", "saturation">>] }

LogInit ==
    /\ variant \in {"vsoc", "v2"}
    /\ clicks = 0
    /\ ticks = 0
    /\ metricUpdates = 0
    /\ lastOp = "mount"
    /\ sinceStop = NotStopped
    /\ scan = NoScan
    /\ \E sc \in NoScenario : CmStarted(sc)
    /\ \E sc \in (IF variant = "vsoc" THEN LogScenarios ELSE NoScenario) :
          VsocStarted(sc)
    /\ \E sc \in (IF variant = "v2" THEN LogScenarios ELSE NoScenario) : V2Started(sc)
    /\ logCalls = StartCalls

LogNext ==
    \/ ToggleVsoc
    \/ \E a \in AttackTypes : SetAttackType(a)
    \/ Reset
    \/ TimerFires
    \/ \E a \in AttackTypes : V2SetAttackType(a)
    \/ V2RunEffects
    \/ V2Reset

SpecLog == LogInit /\ [][LogNext]_vars

\* The frame loop of the VSOC variant when the drawing surface can be
\* missing: the steps of SpecRisk with frames of every timestamp, and the
\* frame callback that finds no canvas or no 2D context.
SurfaceNext ==
    \/ ToggleVsoc
    \/ ToggleRunning
    \/ \E a \in AttackTypes : SetAttackType(a)
    \/ \E r \in RangeChoices : SetLidarRange(r)
    \/ Reset
    \/ \E time \in FrameTimes, rnd \in RandomDraws : Animate(time, rnd)
    \/ AnimateSkipped

SpecSurface == RiskInit /\ [][SurfaceNext]_vars

\* The countermeasures variant: every handler of the component.
CmInit ==
    /\ variant = "cm"
    /\ clicks = 0
    /\ ticks = 0
    /\ metricUpdates = 0
    /\ lastOp = "mount"
    /\ sinceStop = NotStopped
    /\ scan = NoScan
    /\ \E sc \in NoScenario : VsocStarted(sc)
    /\ \E sc \in NoScenario : V2Started(sc)
    /\ logCalls = StartCalls
    /\ \E sc \in CmScenarios : CmStarted(sc)

SpecCm == CmInit /\ [][CmNext]_vars

\* updateMetrics of the countermeasures variant for every attack type and
\* every combination of countermeasures: the run after the user has picked
\* them and pressed Start, one frame done; the steps are the frames.
CmMetricScenarios ==
    { [attack |-> a, frames |-> 1, flags |-> c] :
         a \in CmAttackTypes, c \in [CmFlags -> BOOLEAN] }

CmMetricsInit ==
    /\ variant = "cm"
    /\ clicks = 0
    /\ ticks = 0
    /\ metricUpdates = 0
    /\ lastOp = "mount"
    /\ sinceStop = NotStopped
    /\ scan = NoScan
    /\ \E sc \in NoScenario : VsocStarted(sc)
    /\ \E sc \in NoScenario : V2Started(sc)
    /\ logCalls = StartCalls
    /\ \E sc \in CmMetricScenarios : CmStarted(sc)

CmMetricsNext ==
    \E f \in cm_pending, rnd \in RandomDraws, r1 \in CmRandomDraws,
       r2 \in CmRandomDraws : CmAnimate(f, rnd, r1, r2)

SpecCmMetrics == CmMetricsInit /\ [][CmMetricsNext]_vars

\* calculateLidar of both variants applied to given arguments, in the mounted
\* component: no handler runs.
LidarInit ==
    /\ variant \in {"vsoc", "v2"}
    /\ clicks = 0
    /\ ticks = 0
    /\ metricUpdates = 0
    /\ lastOp = "mount"
    /\ sinceStop = NotStopped
    /\ \E sc \in NoScenario : CmStarted(sc)
    /\ \E sc \in NoScenario : VsocStarted(sc)
    /\ \E sc \in NoScenario : V2Started(sc)
    /\ logCalls = StartCalls
    /\ IF variant = "vsoc"
       THEN \E objs \in ProbeLists, attack \in ProbeAttacks, vsoc \in BOOLEAN,
               range \in ProbeRanges : scan = ScanArgs(objs, attack, vsoc, range)
       ELSE \E objs \in V2ProbeLists, range \in ProbeRanges :
               scan = ScanArgs(objs, "none", FALSE, range)

LidarNext == LidarScan \/ V2LidarScan

SpecLidar == LidarInit /\ [][LidarNext]_vars

----------------------------------------------------------------------------
(* The claims. *)

Types(objs) == {objs[i].type : i \in DOMAIN objs}
SwitchedAndTicked(from) ==
    variant = "vsoc" /\ lastSwitch.from = from /\ attackType # from /\ lastSwitch.ticked

\* C1 (as claimed): in the VSOC variant, once attackType has been switched away
\* from 'phantom' and a running tick has completed, the list holds no phantom;
\* once switched away from 'saturation' and a running tick has completed, it
\* holds no noise.
C1_AttackObjectsRemoved ==
    /\ SwitchedAndTicked("phantom") => "phantom" \notin Types(objects)
    /\ SwitchedAndTicked("saturation") => "noise" \notin Types(objects)

\* C2 (as claimed): in the VSOC variant, once attackType has been switched from
\* 'hiding' to another mode and a running tick has completed, no object of the
\* list is hidden.
C2_HiddenFlagsCleared ==
    SwitchedAndTicked("hiding") => \A i \in DOMAIN objects : ~objects[i].hidden

\* C3: in the v2.0 variant, once attackType is 'none' and the effect on
\* [attackType] has run, the list holds exactly the real objects it held at the
\* switch, none hidden, no phantom and no noise; running or paused, with or
\* without a frame between the switch and the effect, and on every later tick.
C3_NoneRestoresRealObjects ==
    (variant = "v2" /\ v2_attackType = "none" /\ ~v2_effects) =>
        /\ IdsOf(v2_objects) = v2_lastSwitch.realIds
        /\ \A i \in DOMAIN v2_objects :
              ~v2_objects[i].hidden /\ v2_objects[i].type \in RealTypes

\* C3, witness: 'none' was picked while 'hiding' had an object hidden, a frame
\* scheduled before the switch ran before the effect, and a frame ran after it.
C3_Witness ==
    /\ variant = "v2" /\ v2_attackType = "none" /\ ~v2_effects
    /\ v2_lastSwitch.from = "hiding" /\ v2_lastSwitch.hiddenBefore
    /\ v2_lastSwitch.stale /\ v2_lastSwitch.ticked

\* C4: in both variants of lidar_spoof_sim.tsx, every reachable state holds at
\* most one object of type 'phantom'.
C4_AtMostOnePhantom ==
    /\ CountType(objects, "phantom") <= 1
    /\ CountType(v2_objects, "phantom") <= 1

\* C4, witness: the phantom has scrolled off and been respawned (it is right of
\* where it was injected), the mode was switched away and back to 'phantom',
\* and a running tick has completed since.
C4_Witness ==
    /\ variant = "vsoc" /\ attackType = "phantom"
    /\ lastSwitch.from # "none" /\ lastSwitch.ticked
    /\ \E i \in DOMAIN objects : objects[i].type = "phantom" /\ objects[i].x > 350

\* C5: in the VSOC variant, after a running tick executed with attackType =
\* 'saturation' the list holds exactly 15 objects of type 'noise'.
C5_SaturationNoiseCount ==
    (variant = "vsoc" /\ lastTick.done /\ lastTick.attackType = "saturation") =>
        CountType(objects, "noise") = 15

\* C5, witness: a saturation tick that started from a list already holding 15
\* noise objects.
C5_Witness ==
    /\ variant = "vsoc" /\ lastTick.done /\ lastTick.attackType = "saturation"
    /\ CountType(lastTick.before, "noise") = 15

\* C6 (as claimed): in the VSOC variant, after a running tick executed with the
\* defense enabled, every phantom of the list has flagged = true.
C6_PhantomFlagged ==
    (variant = "vsoc" /\ lastTick.done /\ lastTick.vsocActive) =>
        \A i \in DOMAIN objects : objects[i].type = "phantom" => objects[i].flagged

\* the targets calculateRiskMetrics computes for the arguments of the last call,
\* with the defense enabled and with it disabled
TargetsOn == RiskTargets(lastCall.attackType, TRUE, lastCall.dist)
TargetsOff == RiskTargets(lastCall.attackType, FALSE, lastCall.dist)

\* C7: in the VSOC variant's calculateRiskMetrics, for every attack mode but
\* 'none' and every distance, the collision-risk target with the defense
\* enabled is strictly lower than with it disabled, the integrity target is
\* strictly higher, and the call yields a pair of targets within 0..100.
C7_DefenseImprovesTargets ==
    lastCall.done =>
        /\ lastCall.risk \in 0..100 /\ lastCall.integrity \in 0..100
        /\ lastCall.attackType # "none" =>
              /\ lastCall.risk = (IF lastCall.vsocActive THEN TargetsOn.risk
                                  ELSE TargetsOff.risk)
              /\ TargetsOn.risk < TargetsOff.risk
              /\ TargetsOn.integrity > TargetsOff.integrity

\* C7, witness: calculateRiskMetrics has run under an attack with the defense
\* enabled.
C7_Witness ==
    lastCall.done /\ lastCall.attackType # "none" /\ lastCall.vsocActive

\* C8 (as claimed): in the VSOC variant's calculateRiskMetrics, with attackType
\* = 'none' the integrity target is 100 whatever the defense flag, and the
\* collision-risk target is at most 30.
C8_NoAttackTargets ==
    (lastCall.done /\ lastCall.attackType = "none") =>
        lastCall.integrity = 100 /\ lastCall.risk <= 30

\* distances in hundredths, Null being the farthest
Farther(d1, d2) == d2 = Null \/ (d1 # Null /\ d1 <= d2)
SampleDists == {0, 1, 11999, 12000, 40000, Null}

\* C9 (as claimed): in the VSOC variant with attackType = 'none', the
\* collision-risk target is monotone in the distance calculateLidar returns (0
\* included, null the farthest): no farther distance has a higher target, and
\* every returned distance below 120 has the target 30.
C9_RiskMonotoneInDistance ==
    (lastCall.done /\ lastCall.attackType = "none") =>
        /\ \A d \in SampleDists :
              Farther(lastCall.dist, d) =>
                  lastCall.risk >=
                      RiskTargets("none", lastCall.vsocActive, d).risk
        /\ (lastCall.dist # Null /\ lastCall.dist < 120 * 100) => lastCall.risk = 30

\* C10: in the VSOC variant, collisionRisk and integrityScore stay within
\* [0, 100] in every reachable state.
C10_MetricsInRange ==
    /\ collisionRisk >= 0 /\ collisionRisk <= 100 * MetricScale
    /\ integrityScore >= 0 /\ integrityScore <= 100 * MetricScale

\* C10, witness: two metric updates with different targets have moved both
\* metrics off their initial values, the second one after a switch of mode.
C10_Witness ==
    /\ metricUpdates >= 2 /\ lastCall.done
    /\ lastCall.attackType # lastSwitch.from
    /\ collisionRisk > 0 /\ integrityScore < 100 * MetricScale

\* C15: in the VSOC variant, after a running tick executed with attackType =
\* 'hiding' an object is hidden if and only if it is a real object (neither
\* phantom nor noise) with 200 < x < 500; the flag is recomputed, not latched.
C15_HiddenRecomputed ==
    (variant = "vsoc" /\ lastTick.done /\ lastTick.attackType = "hiding") =>
        \A i \in DOMAIN objects :
            objects[i].hidden <=>
                (objects[i].type \notin {"phantom", "noise"}
                 /\ objects[i].x > 200 /\ objects[i].x < 500)

\* C15, witness: a hiding tick has moved an object that was hidden out of the
\* interval, and the object is visible again.
C15_Witness ==
    /\ variant = "vsoc" /\ ticks > 0
    /\ lastTick.done /\ lastTick.attackType = "hiding"
    /\ \E i \in DOMAIN objects :
          /\ i \in DOMAIN lastTick.before
          /\ lastTick.before[i].id = objects[i].id
          /\ lastTick.before[i].hidden
          /\ objects[i].x <= 200
          /\ ~objects[i].hidden

\* C16 (as claimed): in the v2.0 variant, right after reset the object list
\* equals the list the component starts with.
C16_ResetRestoresInitialObjects ==
    (variant = "v2" /\ lastOp = "reset") => v2_objects = V2InitialObjects

\* C17 (as claimed): in the VSOC variant, right after reset the event log is
\* empty.
C17_ResetEmptiesLog ==
    (variant = "vsoc" /\ lastOp = "reset") => logs = << >>

\* C18 (as claimed): in the VSOC variant, right after reset collisionRisk = 0
\* and integrityScore = 100.
C18_ResetRestoresMetrics ==
    (variant = "vsoc" /\ lastOp = "reset") =>
        collisionRisk = 0 /\ integrityScore = 100 * MetricScale

\* C20 (as claimed): in the VSOC variant, once the run has been paused or
\* reset no frame callback is pending, and none has run or updated the
\* metrics since, until the run is started again.
C20_StopCancelsFrames ==
    (variant = "vsoc" /\ sinceStop.by # "none") =>
        ~requestRef /\ ~sinceStop.frames /\ ~sinceStop.metrics

\* the list without its hidden objects
RECURSIVE Visible(_)
Visible(objs) ==
    IF objs = << >> THEN << >>
    ELSE IF Head(objs).hidden THEN Visible(Tail(objs))
         ELSE <<Head(objs)>> \o Visible(Tail(objs))

\* the list with every hidden flag cleared
Unhidden(objs) == [k \in DOMAIN objs |-> [objs[k] EXCEPT !.hidden = FALSE]]

\* C12 (as claimed): in the VSOC variant's calculateLidar with no attack, for a
\* single non-hidden real object whose vertical extent contains the sensor's
\* y = 340 and whose left edge is right of the sensor x = 120 by no more than
\* lidarRange, some ray registers a hit on it and minDist is not null.
C12_ObjectAheadIsHit ==
    (/\ scan.done /\ variant = "vsoc" /\ scan.attackType = "none"
     /\ Len(scan.objs) = 1
     /\ ~scan.objs[1].hidden /\ scan.objs[1].type \in RealTypes
     /\ scan.objs[1].y < sensorY /\ sensorY < scan.objs[1].y + scan.objs[1].height
     /\ scan.objs[1].x > sensorX
     /\ scan.objs[1].x - sensorX <= scan.lidarRange)
    => /\ \E i \in Rays : scan.hits[i] = 1
       /\ scan.minDist # Null

\* C13: in both variants of lidar_spoof_sim.tsx, calculateLidar registers no hit
\* against a hidden object: the object each ray records as hit is not hidden,
\* and minDist is the one of the list without its hidden objects.
C13_HiddenNeverHit ==
    scan.done =>
        /\ \A i \in Rays : scan.hits[i] # 0 => ~scan.objs[scan.hits[i]].hidden
        /\ scan.minDist =
              (IF variant = "vsoc"
               THEN CalculateLidar(Visible(scan.objs), scan.attackType, scan.lidarRange)
               ELSE V2CalculateLidar(Visible(scan.objs), scan.lidarRange))

\* C13, witness: the list holds a hidden object that the rays would hit first
\* were it visible, and a visible object that they hit instead.
C13_Witness ==
    /\ scan.done /\ variant = "vsoc"
    /\ \E k \in DOMAIN scan.objs : scan.objs[k].hidden
    /\ scan.minDist # Null
    /\ CalculateLidar(Unhidden(scan.objs), scan.attackType, scan.lidarRange)
          < scan.minDist

\* C14 (as claimed): in the VSOC variant's calculateLidar, the hit test of an
\* object uses x - 150 only for a real object under attackType = 'relay' with
\* the defense disabled; with the defense enabled, for phantom and noise
\* objects, and under every other attack mode it uses the object's x.
C14_RelayShiftOnlyUndefended ==
    (scan.done /\ variant = "vsoc") =>
        \A k \in DOMAIN scan.objs :
            scan.checkXs[k] =
                (IF /\ scan.attackType = "relay"
                    /\ ~scan.vsocActive
                    /\ scan.objs[k].type \notin {"phantom", "noise"}
                 THEN scan.objs[k].x - 150
                 ELSE scan.objs[k].x)

Abs(n) == IF n < 0 THEN -n ELSE n

\* one update of a metric from `prev` to `new` with the target `target` is the
\* filter step next = prev + (target - prev) * 0.1: `new` is on the side of
\* the target where `prev` was, and nearer to it unless `prev` was on it
FilterStep(prev, new, target) ==
    LET t == target * MetricScale
    IN  /\ 10 * (new - prev) = t - prev
        /\ (prev <= t => new <= t) /\ (prev >= t => new >= t)
        /\ prev # t => Abs(new - t) < Abs(prev - t)

C19_ResetStopsClock ==
    variant = "cm" =>
        /\ lastOp = "reset" =>
              ~cm_isRunning /\ cm_attackType = "none" /\ cm_time = 0
        /\ sinceStop.by = "reset" =>
              ~cm_isRunning /\ cm_time = 0 /\ ~sinceStop.frames /\ cm_pending = {}

\* C19, witness: reset was the first click of a run that was under an attack,
\* with frames executed before it (the metrics still show the attack).
C19_Witness ==
    /\ variant = "cm" /\ lastOp = "reset"
    /\ clicks = 1 /\ ticks >= 2
    /\ cm_detectionRate < 95 * 100

----------------------------------------------------------------------------
(* The frame loop of the countermeasures variant. *)

\* C21: in the countermeasures variant at most one animation-frame callback
\* is pending at any time, after the effect has run and also between the
\* request animate makes itself and the cleanup of the effect that follows
\* it, and the frame that ran last has raised time by exactly 1.
C21_OneFramePending ==
    variant = "cm" =>
        /\ Cardinality(cm_pending) <= 1
        /\ cm_isRunning => Cardinality(cm_pending) = 1
        /\ (lastOp = "animate" /\ cm_lastFrame.ran) =>
               /\ Cardinality(cm_lastFrame.pending) <= 1
               /\ cm_time = cm_lastFrame.time + 1

\* a running frame requested its successor, and the effect replaced that
\* request by its own
C21_Witness ==
    /\ variant = "cm"
    /\ cm_isRunning
    /\ lastOp = "animate"
    /\ ticks >= 2
    /\ cm_lastFrame.pending # {}
    /\ cm_pending # cm_lastFrame.pending
    /\ Cardinality(cm_pending) = 1

----------------------------------------------------------------------------
(* The event logs. *)

\* the first n entries of a sequence
Take(s, n) == SubSeq(s, 1, IF Len(s) < n THEN Len(s) ELSE n)

\* the calls that added an entry: a call whose message is that of the call
\* before it adds nothing in the VSOC variant (line 58)
RECURSIVE AddedEntries(_)
AddedEntries(calls) ==
    IF Len(calls) <= 1 THEN calls
    ELSE IF calls[1].message = calls[2].message THEN AddedEntries(Tail(calls))
    ELSE <<calls[1]>> \o AddedEntries(Tail(calls))

\* C22: in both variants of lidar_spoof_sim.tsx the log never holds more
\* than 6 entries and consists of the entries added most recently since it
\* was last emptied, the latest at index 0.
C22_LogHoldsNewestSix ==
    /\ variant = "vsoc" =>
          /\ Len(logs) <= 6
          /\ logs = Take(AddedEntries(logCalls), 6)
    /\ variant = "v2" =>
          /\ Len(v2_logs) <= 6
          /\ v2_logs = Take(logCalls, 6)

\* more than 6 entries have been added and the oldest has been dropped
C22_Witness ==
    /\ Len(logCalls) > 6
    /\ variant = "vsoc" =>
          /\ Len(AddedEntries(logCalls)) > 6
          /\ Len(logs) = 6
          /\ logs[1] = logCalls[1]
          /\ lastOp = "timer"
    /\ variant = "v2" => Len(v2_logs) = 6 /\ v2_logs[1] = logCalls[1]

----------------------------------------------------------------------------
(* The object list of the VSOC variant. *)

\* C23: in the VSOC variant every object of the list has a positive width
\* and a positive height, and no two objects of the list have the same id.
C23_ObjectsWellFormed ==
    variant = "vsoc" =>
        /\ \A i \in DOMAIN objects : objects[i].width > 0 /\ objects[i].height > 0
        /\ \A i, j \in DOMAIN objects : objects[i].id = objects[j].id => i = j

\* a tick has put the noise objects next to the real objects and the phantom
C23_Witness ==
    /\ variant = "vsoc"
    /\ lastTick.done
    /\ CountType(objects, "noise") = noiseCount
    /\ HasPhantom(objects)
    /\ Len(objects) = noiseCount + 3

\* the ids of the real objects of a list
RealIds(objs) == {objs[i].id : i \in {k \in DOMAIN objs : objs[k].type \in RealTypes}}

\* C24: in the VSOC variant the real objects of the list are at all times
\* the two the component was mounted with: no tick, attack switch, defense
\* toggle or pause removes one.
C24_RealObjectsKept ==
    variant = "vsoc" =>
        /\ RealIds(objects) = RealIds(InitialObjects)
        /\ Cardinality({i \in DOMAIN objects : objects[i].type \in RealTypes}) = 2

\* a tick under an attack the user switched to has recycled a real object
C24_Witness ==
    /\ variant = "vsoc"
    /\ lastTick.done
    /\ lastTick.attackType \notin {"none", lastSwitch.from}
    /\ \E i \in DOMAIN objects, k \in DOMAIN lastTick.before :
          /\ objects[i].type \in RealTypes
          /\ lastTick.before[k].id = objects[i].id
          /\ lastTick.before[k].x < 0
          /\ objects[i].x >= canvasWidth + 100

\* the object of the list before the last running tick was moved past the
\* threshold by that tick
Recycled(o) == o.x - lastTick.simSpeed + o.width < -200

\* C25: in the VSOC variant, after a running tick every object has
\* x + width >= -200; an object the tick moved past -200 is at x in
\* [canvasWidth + 100, canvasWidth + 700) with hidden = false, and every
\* other object that was in the list before is at its previous x minus
\* simSpeed.
C25_RecycledOrMoved ==
    (variant = "vsoc" /\ lastTick.done) =>
        /\ \A i \in DOMAIN objects : objects[i].x + objects[i].width >= -200
        /\ \A k \in DOMAIN lastTick.before, i \in DOMAIN objects :
              lastTick.before[k].id = objects[i].id =>
                  IF Recycled(lastTick.before[k])
                  THEN /\ objects[i].x >= canvasWidth + 100
                       /\ objects[i].x < canvasWidth + 700
                       /\ ~objects[i].hidden
                  ELSE objects[i].x = lastTick.before[k].x - lastTick.simSpeed

\* the last running tick, after the user changed the speed, recycled one
\* object and moved another
C25_Witness ==
    /\ variant = "vsoc"
    /\ lastTick.done
    /\ lastTick.simSpeed = 10
    /\ \E k, m \in DOMAIN lastTick.before :
          /\ Recycled(lastTick.before[k])
          /\ ~Recycled(lastTick.before[m])
          /\ \E i, j \in DOMAIN objects :
                /\ objects[i].id = lastTick.before[k].id
                /\ objects[j].id = lastTick.before[m].id
                /\ objects[j].x = lastTick.before[m].x - 10

----------------------------------------------------------------------------
(* The frames. *)

\* C26: in the VSOC and the v2.0 variant calculateRiskMetrics runs on
\* exactly every 10th executed frame: of n frames executed since the mount,
\* at least n \div 10 and at most that plus one have called it.
C26_EveryTenthFrame ==
    variant \in {"vsoc", "v2"} =>
        /\ 10 * metricUpdates <= ticks + 9
        /\ ticks <= 10 * metricUpdates + 9

\* C27: in the VSOC variant a frame callback that returns early because the
\* canvas or its 2D context is missing leaves a frame callback pending, so
\* that another one runs without any user action or state change.
C27_SkippedFrameKeepsLoop ==
    (variant = "vsoc" /\ lastOp = "animateSkipped") => requestRef

\* C28: in the VSOC variant, while isRunning is false no step changes the
\* object list except reset: a frame callback that runs while paused leaves
\* it as it is, under every attack mode, and so do the attack switches and
\* defense toggles made while paused.
C28_PausedListFrozen ==
    [][(variant = "vsoc" /\ ~isRunning /\ objects' # objects) => lastOp' = "reset"]_vars

\* a frame has run after the user paused the run and then switched to the
\* saturation attack, and no noise object has appeared
C28_Witness ==
    /\ variant = "vsoc"
    /\ ~isRunning
    /\ lastOp = "animate"
    /\ sinceStop.by = "pause"
    /\ sinceStop.frames
    /\ attackType = "saturation"
    /\ ~lastSwitch.ticked
    /\ CountType(objects, "noise") = 0

\* C29: in the VSOC variant the entry 'VSOC: Counter-measures deployed.' is
\* appended to the log only in a state where vsocActive is true and
\* attackType is not 'none'.
C29_DeployedOnlyWhileDefended ==
    [][(/\ variant = "vsoc"
        /\ logs' # logs
        /\ logs' # << >>
        /\ logs'[1].message = MsgDeployed)
       => (vsocActive /\ attackType # "none")]_vars

----------------------------------------------------------------------------
(* The metrics of the countermeasures variant, in hundredths. *)

\* C30: in the countermeasures variant, for every attack type, every
\* combination of countermeasures and every random term, the values
\* updateMetrics publishes are within 0 and 100: detectionRate,
\* collisionRisk and mitigationScore.
C30_CmMetricsInRange ==
    variant = "cm" =>
        /\ cm_detectionRate >= 0 /\ cm_detectionRate <= 100 * 100
        /\ cm_collisionRisk >= 0 /\ cm_collisionRisk <= 100 * 100
        /\ cm_mitigationScore >= 0 /\ cm_mitigationScore <= 100 * 100

\* a frame under the relay attack with every countermeasure ticked: the sum
\* of the detection terms is above 100 and that of the collision terms below 0
C30_Witness ==
    /\ variant = "cm"
    /\ lastOp = "animate"
    /\ cm_attackType = "relay"
    /\ \A f \in CmFlags : cm_countermeasures[f]
    /\ CmBase(cm_attackType, cm_countermeasures).detection > 100
    /\ CmBase(cm_attackType, cm_countermeasures).collision < 0
    /\ cm_detectionRate = 100 * 100
    /\ cm_collisionRisk = 0

====
